---- MODULE Spec2Model ----
(***************************************************************************)
(* Model of the anomaly detection engine of market-whisper-anomaly-detector *)
(* (src/src/utils/anomalyDetection.ts, src/src/utils/stockData.ts and the   *)
(* earlier revision of stockData.ts kept as src/unnamed/part_003).          *)
(*                                                                         *)
(* Numbers.  The code computes on IEEE doubles.  The model computes on     *)
(* fixed-point numbers with three decimals: the integer v stands for       *)
(* v / Scale.  Prices and volumes of the input bars are whole numbers.     *)
(* A division whose divisor can be zero yields a JS number record          *)
(* [kind |-> "num" | "nan" | "inf", v |-> ...] so that NaN and Infinity    *)
(* behave in comparisons as they do in the code.                           *)
(***************************************************************************)
EXTENDS Integers, Sequences, FiniteSets, TLC

VARIABLES
    stockData,    \* the series handed to detectAnomalies / fetchStockMetrics
    config,       \* the AnomalyDetectionConfig of the call
    detected,     \* detectAnomalies: the list each detector returned
    candidates,   \* the list handed to applyWeightedScoring
    anomalies,    \* the list applyWeightedScoring / detectAnomalies returned
    previous,     \* the list the aggregator returned on its run before
    runs,         \* how many times the aggregator ran on `candidates`
    metrics,      \* what fetchStockMetrics returned (or that it threw)
    correlation,  \* calculatePearsonCorrelation: its arguments and its result
    fetch,        \* fetchStockData: its arguments, its locals and its result
    portfolio,    \* the Portfolio page: its state and its refreshes in flight
    page,         \* the Index page: its state and its loadData runs in flight
    pc            \* "idle" before the call, then the operation that ran

vars == <<stockData, config, detected, candidates, anomalies, previous, runs,
          metrics, correlation, fetch, portfolio, page, pc>>

(***************************************************************************)
(* Fixed-point arithmetic                                                  *)
(***************************************************************************)
Scale == 10 * 10 * 10

Abs(x) == IF x < 0 THEN -x ELSE x

Sign(x) == IF x < 0 THEN -1 ELSE 1

Min(a, b) == IF a < b THEN a ELSE b

Max(a, b) == IF a > b THEN a ELSE b

\* a * b / c for a, b >= 0 and c > 0 without leaving 32 bits when b * c does not
MulDivAbs(a, b, c) == (a \div c) * b + ((a % c) * b) \div c

\* a * b / c rounded toward zero
MulDiv(a, b, c) == Sign(a) * Sign(b) * MulDivAbs(Abs(a), Abs(b), c)

\* product and quotient of two fixed-point numbers (divisor not zero)
Mul(a, b) == MulDiv(a, b, Scale)

Div(a, b) == Sign(b) * MulDiv(a, Scale, Abs(b))

\* the fixed-point number of a whole number
Num(n) == n * Scale

RECURSIVE SqrtSearch(_, _, _)
SqrtSearch(x, lo, hi) ==
    IF lo >= hi THEN lo
    ELSE LET mid == (lo + hi + 1) \div 2
         IN  IF mid * mid <= x THEN SqrtSearch(x, mid, hi)
             ELSE SqrtSearch(x, lo, mid - 1)

\* largest r with r * r <= x
ISqrt(x) == SqrtSearch(x, 0, 46340)

\* Math.sqrt of a fixed-point number a >= 0
Sqrt(a) ==
    IF a < 2000000 THEN ISqrt(a * Scale)
    ELSE IF a < 200000000 THEN ISqrt(a * 10) * 10
    ELSE ISqrt(a \div 10) * 100

\* Math.pow(a, 2)
Sq(a) == Mul(a, a)

JSDivInfinity(x, y) ==
    IF y # 0 THEN [kind |-> "num", v |-> Div(x, y)]
    ELSE [kind |-> "inf", v |-> Sign(x)]

\* x / y of the code where y may be zero: NaN for 0/0, Infinity for x/0
JSDiv(x, y) ==
    IF y # 0 THEN [kind |-> "num", v |-> Div(x, y)]
    ELSE IF x = 0 THEN [kind |-> "nan", v |-> 0]
    ELSE [kind |-> "inf", v |-> Sign(x)]

\* Math.abs of a JS number
JSAbs(x) == [kind |-> x.kind, v |-> Abs(x.v)]

\* x > t of the code, t finite: false for NaN, true for +Infinity
JSGreater(x, t) ==
    \/ x.kind = "num" /\ x.v > t
    \/ x.kind = "inf" /\ x.v > 0

\* toFixed(d) of a fixed-point number, as the number of 10^-d units (d <= 3)
ToFixed(a, d) ==
    LET unit == IF d = 0 THEN 1000 ELSE IF d = 1 THEN 100
                ELSE IF d = 2 THEN 10 ELSE 1
    IN  Sign(a) * ((Abs(a) + unit \div 2) \div unit)

(***************************************************************************)
(* Sequences                                                               *)
(***************************************************************************)
RECURSIVE SumSeq(_)
SumSeq(s) == IF s = <<>> THEN 0 ELSE s[1] + SumSeq(Tail(s))

RECURSIVE MaxSeq(_)
MaxSeq(s) == IF Len(s) = 1 THEN s[1] ELSE Max(s[1], MaxSeq(Tail(s)))

\* s.slice(from, to) with 0-based from (inclusive) and to (exclusive)
Slice(s, from, to) ==
    LET a == Max(0, Min(from, Len(s)))
        b == Max(a, Min(to, Len(s)))
    IN  [i \in 1..(b - a) |-> s[a + i]]

RECURSIVE Flatten(_)
Flatten(ss) == IF ss = <<>> THEN <<>> ELSE ss[1] \o Flatten(Tail(ss))

(***************************************************************************)
(* Aggregator: applyWeightedScoring                                        *)
(***************************************************************************)
\* one piece of a description string: a fixed text with one formatted number
Part(txt, num) == [txt |-> txt, num |-> num]

Separator == Part("; ", 0)

MultiplePrefix == Part("Multiple indicators: ", 0)

GroupKeyById(a) == <<a.id, a.type>>

\* `${anomaly.date}-${anomaly.type}`
GroupKey(a) == <<a.date, a.type>>

\* the keys of groupedAnomalies in the order the Map received them
RECURSIVE GroupKeys(_, _)
GroupKeys(s, seen) ==
    IF s = <<>> THEN <<>>
    ELSE IF GroupKey(s[1]) \in seen THEN GroupKeys(Tail(s), seen)
    ELSE <<GroupKey(s[1])>> \o GroupKeys(Tail(s), seen \cup {GroupKey(s[1])})

\* groupedAnomalies.get(key): the members in submission order
Group(s, key) == SelectSeq(s, LAMBDA a : GroupKey(a) = key)

RECURSIVE CombinedScoreAveraged(_)
CombinedScoreAveraged(group) ==
    IF group = <<>> THEN 0
    ELSE (CombinedScoreAveraged(SubSeq(group, 1, Len(group) - 1)) * (Len(group) - 1)
          + group[Len(group)].score) \div Len(group)

\* group.reduce((sum, a) => sum + a.score, 0)
RECURSIVE CombinedScore(_)
CombinedScore(group) ==
    IF group = <<>> THEN 0
    ELSE CombinedScore(SubSeq(group, 1, Len(group) - 1)) + group[Len(group)].score

SeverityStepFirstWins(max, sev) == IF max = "low" THEN sev ELSE max

SeverityStepLastWins(max, sev) == sev

\* one step of the severity reduce
SeverityStep(max, sev) ==
    IF sev = "high" \/ max = "high" THEN "high"
    ELSE IF sev = "medium" \/ max = "medium" THEN "medium"
    ELSE "low"

\* group.reduce(..., 'low')
RECURSIVE MaxSeverity(_)
MaxSeverity(group) ==
    IF group = <<>> THEN "low"
    ELSE SeverityStep(MaxSeverity(SubSeq(group, 1, Len(group) - 1)),
                      group[Len(group)].severity)

\* group.map(a => a.description).join('; ')
RECURSIVE JoinDescriptions(_)
JoinDescriptions(group) ==
    IF group = <<>> THEN <<>>
    ELSE IF Len(group) = 1 THEN group[1].description
    ELSE group[1].description \o <<Separator>> \o JoinDescriptions(Tail(group))

MergeGroupFirstOnly(group) == group[1]

MergeGroupKeepsFirstSeverity(group) ==
    IF Len(group) = 1 THEN group[1]
    ELSE [group[1] EXCEPT
            !.score = CombinedScore(group),
            !.description = <<MultiplePrefix>> \o JoinDescriptions(group)]

MergeGroupLastBase(group) ==
    IF Len(group) = 1 THEN group[1]
    ELSE [group[Len(group)] EXCEPT
            !.score = CombinedScore(group),
            !.severity = MaxSeverity(group),
            !.description = <<MultiplePrefix>> \o JoinDescriptions(group)]

\* the record pushed to mergedAnomalies for one group
MergeGroup(group) ==
    IF Len(group) = 1 THEN group[1]
    ELSE [group[1] EXCEPT
            !.score = CombinedScore(group),
            !.severity = MaxSeverity(group),
            !.description = <<MultiplePrefix>> \o JoinDescriptions(group)]

RECURSIVE InsertByScoreUnstable(_, _)
InsertByScoreUnstable(sorted, x) ==
    IF sorted = <<>> THEN <<x>>
    ELSE IF sorted[1].score > x.score
         THEN <<sorted[1]>> \o InsertByScoreUnstable(Tail(sorted), x)
         ELSE <<x>> \o sorted

\* place x in a list sorted by descending score, behind every record that
\* does not compare after it (the sort is stable)
RECURSIVE InsertByScore(_, _)
InsertByScore(sorted, x) ==
    IF sorted = <<>> THEN <<x>>
    ELSE IF sorted[1].score >= x.score
         THEN <<sorted[1]>> \o InsertByScore(Tail(sorted), x)
         ELSE <<x>> \o sorted

\* list.sort((a, b) => b.score - a.score)
RECURSIVE SortByScoreDesc(_)
SortByScoreDesc(s) ==
    IF s = <<>> THEN <<>>
    ELSE InsertByScore(SortByScoreDesc(SubSeq(s, 1, Len(s) - 1)), s[Len(s)])

\* mergedAnomalies before the sort
MergedAnomalies(s) ==
    LET keys == GroupKeys(s, {})
    IN  [k \in 1..Len(keys) |-> MergeGroup(Group(s, keys[k]))]

applyWeightedScoring(s, cfg) == SortByScoreDesc(MergedAnomalies(s))

(***************************************************************************)
(* Configuration: AnomalyDetectionConfig                                   *)
(***************************************************************************)
defaultConfig ==
    [zscore |-> [enabled |-> TRUE, threshold |-> 2500, weight |-> 250],
     bollingerBands |-> [enabled |-> TRUE, period |-> 20, stdDev |-> 2000,
                         weight |-> 250],
     macd |-> [enabled |-> TRUE, fastPeriod |-> 12, slowPeriod |-> 26,
               signalPeriod |-> 9, weight |-> 250],
     isolationForest |-> [enabled |-> TRUE, contamination |-> 100,
                          weight |-> 150],
     patternDetection |-> [enabled |-> TRUE, weight |-> 100]]

(***************************************************************************)
(* Statistics helpers                                                      *)
(***************************************************************************)
\* data.reduce((sum, val) => sum + val, 0) / data.length, data not empty
calculateMean(data) ==
    LET sum == SumSeq(data)
    IN  Sign(sum) * (Abs(sum) \div Len(data))

calculateStdDevVariance(data, mean) ==
    calculateMean([i \in 1..Len(data) |-> Sq(data[i] - mean)])

\* Math.sqrt(calculateMean(data.map(val => Math.pow(val - mean, 2))))
calculateStdDev(data, mean) ==
    Sqrt(calculateMean([i \in 1..Len(data) |-> Sq(data[i] - mean)]))

\* the ema array of calculateEMA, built left to right
RECURSIVE EMAFrom(_, _, _)
EMAFrom(data, multiplier, ema) ==
    IF Len(ema) = Len(data) THEN ema
    ELSE LET i == Len(ema) + 1
         IN  EMAFrom(data, multiplier,
                     Append(ema, Mul(data[i], multiplier)
                                 + Mul(ema[i - 1], Scale - multiplier)))

calculateEMA(data, period) ==
    EMAFrom(data, Div(Num(2), Num(period + 1)), <<data[1]>>)

\* Math.sqrt(point.reduce((sum, val, i) => sum + Math.pow(val - other[i], 2), 0))
Distance(point, other) ==
    Sqrt(SumSeq([i \in 1..Len(point) |-> Sq(point[i] - other[i])]))

\* mean distance of `point` to every point of the dataset (itself included)
calculateIsolationScore(point, dataset) ==
    calculateMean([j \in 1..Len(dataset) |-> Distance(point, dataset[j])])

RECURSIVE InsertAscending(_, _)
InsertAscending(sorted, x) ==
    IF sorted = <<>> THEN <<x>>
    ELSE IF sorted[1] <= x THEN <<sorted[1]>> \o InsertAscending(Tail(sorted), x)
    ELSE <<x>> \o sorted

\* [...data].sort((a, b) => a - b)
RECURSIVE SortAscending(_)
SortAscending(s) ==
    IF s = <<>> THEN <<>>
    ELSE InsertAscending(SortAscending(Tail(s)), s[1])

\* Math.floor((percentile / 100) * sorted.length), 0-based
PercentileIndex(n, percentile) == ((percentile \div 100) * n) \div Scale

\* sorted[index]; reading past the end gives undefined, which compares as NaN
getPercentile(data, percentile) ==
    LET sorted == SortAscending(data)
        index == PercentileIndex(Len(data), percentile)
    IN  IF index < Len(data) THEN [kind |-> "num", v |-> sorted[index + 1]]
        ELSE [kind |-> "nan", v |-> 0]

(***************************************************************************)
(* Detectors                                                               *)
(***************************************************************************)
\* a record whose value and score have changed places
CandidateValueAsScore(id, date, value, score, type, severity, description) ==
    [id |-> id, date |-> date, value |-> score, score |-> value,
     type |-> type, severity |-> severity, description |-> <<description>>]

Candidate(id, date, value, score, type, severity, description) ==
    [id |-> id, date |-> date, value |-> value, score |-> score,
     type |-> type, severity |-> severity, description |-> <<description>>]

Closes(data) == [i \in 1..Len(data) |-> Num(data[i].close)]

Volumes(data) == [i \in 1..Len(data) |-> Num(data[i].volume)]

\* severity: score > hi ? 'high' : score > mid ? 'medium' : 'low'
Severity(x, hi, mid) ==
    IF x > hi THEN "high" ELSE IF x > mid THEN "medium" ELSE "low"

ZScoreSeverityWeighted(z, weight) == Severity(Mul(z, weight), 3000, 2500)

\* priceZScore > 3 ? 'high' : priceZScore > 2.5 ? 'medium' : 'low'
ZScoreSeverity(z, weight) == Severity(z, 3000, 2500)

\* Math.abs((value - mean) / stdDev) of every bar, as the code compares it
\* with the threshold
ZScores(values) ==
    LET mean == calculateMean(values)
        stdDev == calculateStdDev(values, mean)
    IN  [i \in 1..Len(values) |-> JSAbs(JSDiv(values[i] - mean, stdDev))]

detectZScoreAnomalies(data, cfg) ==
    LET prices == Closes(data)
        volumes == Volumes(data)
        priceZScores == ZScores(prices)
        volumeZScores == ZScores(volumes)
        Of(i) ==
            LET priceZScore == priceZScores[i]
                volumeZScore == volumeZScores[i]
            IN  (IF JSGreater(priceZScore, cfg.threshold)
                 THEN <<Candidate(<<"zscore", i, "price">>, data[i].date,
                          Num(data[i].close), Mul(priceZScore.v, cfg.weight),
                          "price", ZScoreSeverity(priceZScore.v, cfg.weight),
                          Part("Z-Score price outlier: % standard deviations from mean",
                               ToFixed(priceZScore.v, 2)))>>
                 ELSE <<>>)
                \o
                (IF JSGreater(volumeZScore, cfg.threshold)
                 THEN <<Candidate(<<"zscore", i, "volume">>, data[i].date,
                          Num(data[i].volume), Mul(volumeZScore.v, cfg.weight),
                          "volume", ZScoreSeverity(volumeZScore.v, cfg.weight),
                          Part("Z-Score volume outlier: % standard deviations from mean",
                               ToFixed(volumeZScore.v, 2)))>>
                 ELSE <<>>)
    IN  Flatten([i \in 1..Len(data) |-> Of(i)])

\* the bars before bar i instead of those ending at bar i
BollingerWindowBefore(prices, i, period) ==
    SubSeq(prices, Max(1, i - period), i - 1)

\* prices.slice(i - config.period + 1, i + 1), i counted from 1 here
BollingerWindow(prices, i, period) == SubSeq(prices, i - period + 1, i)

detectBollingerBandsAnomalies(data, cfg) ==
    LET prices == Closes(data)
        Of(i) ==
            LET window == BollingerWindow(prices, i, cfg.period)
                sma == calculateMean(window)
                stdDev == calculateStdDev(window, sma)
                upperBand == sma + Mul(cfg.stdDev, stdDev)
                lowerBand == sma - Mul(cfg.stdDev, stdDev)
                currentPrice == prices[i]
                deviation == IF currentPrice > upperBand
                             THEN Div(currentPrice - upperBand, upperBand)
                             ELSE Div(lowerBand - currentPrice, lowerBand)
            IN  IF currentPrice > upperBand \/ currentPrice < lowerBand
                THEN <<Candidate(<<"bollinger", i, "price">>, data[i].date,
                         currentPrice, Mul(Mul(deviation, cfg.weight), Num(10)),
                         "price", Severity(deviation, 50, 20),
                         Part(IF currentPrice > upperBand
                              THEN "Bollinger Bands breach: Price above upper band by %%"
                              ELSE "Bollinger Bands breach: Price below lower band by %%",
                              ToFixed(Mul(deviation, Num(100)), 2)))>>
                ELSE <<>>
    IN  Flatten([k \in 1..Max(0, Len(data) - cfg.period + 1) |->
                    Of(cfg.period - 1 + k)])

detectMACDAnomaliesUnguarded(data, cfg) ==
    LET prices == Closes(data)
        fastEMA == calculateEMA(prices, cfg.fastPeriod)
        slowEMA == calculateEMA(prices, cfg.slowPeriod)
        macdLine == [i \in 1..Len(prices) |-> fastEMA[i] - slowEMA[i]]
        signalLine == calculateEMA(macdLine, cfg.signalPeriod)
        Of(i) ==
            LET histogram == macdLine[i + 1] - signalLine[i + 1]
                prevHistogram == IF i > 0 THEN macdLine[i] - signalLine[i] ELSE 0
            IN  IF /\ Abs(histogram) > Abs(prevHistogram) * 2
                   /\ Abs(histogram) > 500
                THEN <<Candidate(<<"macd", i, "price">>, data[i + 1].date,
                         Num(data[i + 1].close),
                         Mul(Mul(Abs(histogram), cfg.weight), Num(5)),
                         "price", Severity(Abs(histogram), 2000, 1000),
                         Part(IF histogram > 0
                              THEN "MACD divergence: Bullish signal with magnitude %"
                              ELSE "MACD divergence: Bearish signal with magnitude %",
                              ToFixed(Abs(histogram), 3)))>>
                ELSE <<>>
    IN  Flatten([k \in 1..Max(0, Len(macdLine) - cfg.signalPeriod) |->
                    Of(cfg.signalPeriod + k - 1)])

detectMACDAnomalies(data, cfg) ==
    IF Len(data) < cfg.slowPeriod + cfg.signalPeriod THEN <<>>
    ELSE
    LET prices == Closes(data)
        fastEMA == calculateEMA(prices, cfg.fastPeriod)
        slowEMA == calculateEMA(prices, cfg.slowPeriod)
        macdLine == [i \in 1..Len(prices) |-> fastEMA[i] - slowEMA[i]]
        signalLine == calculateEMA(macdLine, cfg.signalPeriod)
        \* i is the 0-based index of the loop
        Of(i) ==
            LET histogram == macdLine[i + 1] - signalLine[i + 1]
                prevHistogram == IF i > 0 THEN macdLine[i] - signalLine[i] ELSE 0
                dataIndex == i + cfg.slowPeriod - 1
            IN  IF /\ Abs(histogram) > Abs(prevHistogram) * 2
                   /\ Abs(histogram) > 500
                   /\ dataIndex < Len(data)
                THEN <<Candidate(<<"macd", i, "price">>, data[dataIndex + 1].date,
                         Num(data[dataIndex + 1].close),
                         Mul(Mul(Abs(histogram), cfg.weight), Num(5)),
                         "price", Severity(Abs(histogram), 2000, 1000),
                         Part(IF histogram > 0
                              THEN "MACD divergence: Bullish signal with magnitude %"
                              ELSE "MACD divergence: Bearish signal with magnitude %",
                              ToFixed(Abs(histogram), 3)))>>
                ELSE <<>>
    IN  Flatten([k \in 1..Max(0, Len(macdLine) - cfg.signalPeriod) |->
                    Of(cfg.signalPeriod + k - 1)])

\* the feature vector of one bar
Features(d) ==
    <<Num(d.close), Num(d.volume), Num(d.high - d.low),
      Div(Num(d.close - d.open), Num(d.open)), Num(d.volume * d.close)>>

detectIsolationForestAnomalies(data, cfg) ==
    LET features == [i \in 1..Len(data) |-> Features(data[i])]
        isolationScores ==
            [i \in 1..Len(data) |-> calculateIsolationScore(features[i], features)]
        threshold == getPercentile(isolationScores,
                                   Mul(Scale - cfg.contamination, Num(100)))
        Of(i) ==
            IF threshold.kind = "num" /\ isolationScores[i] > threshold.v
            THEN <<Candidate(<<"isolation", i, "price">>, data[i].date,
                     Num(data[i].close), Mul(isolationScores[i], cfg.weight),
                     "price",
                     Severity(isolationScores[i], Mul(threshold.v, 1500),
                              Mul(threshold.v, 1200)),
                     Part("Isolation Forest anomaly: Unusual combination of price, volume, and volatility patterns (score: %)",
                          ToFixed(isolationScores[i], 3)))>>
            ELSE <<>>
    IN  Flatten([i \in 1..Len(data) |-> Of(i)])

\* peakVolume / avgVolume of the bars around centerIndex (0-based)
VolumeSpike(data, centerIndex) ==
    LET volumes == Slice(Volumes(data), Max(0, centerIndex - 3),
                         Min(Len(data) - 1, centerIndex + 3) + 1)
    IN  JSDiv(MaxSeq(volumes), calculateMean(Slice(volumes, 0, Len(volumes) - 1)))

\* detectPumpAndDump; centerIndex is 0-based
detectPumpAndDump(data, centerIndex) ==
    LET window == 3
        start == Max(0, centerIndex - window)
        end == Min(Len(data) - 1, centerIndex + window)
        prices == Slice(Closes(data), start, end + 1)
        prePumpPrice == prices[1]
        peakPrice == MaxSeq(prices)
        postDumpPrice == prices[Len(prices)]
        pumpMagnitude == Div(peakPrice - prePumpPrice, prePumpPrice)
        dumpMagnitude == Div(peakPrice - postDumpPrice, peakPrice)
        volumeSpike == VolumeSpike(data, centerIndex)
        product == IF volumeSpike.kind = "num"
                   THEN Mul(Mul(pumpMagnitude + dumpMagnitude, volumeSpike.v), 100)
                   ELSE 900
    IN  IF pumpMagnitude > 100 /\ dumpMagnitude > 80 /\ JSGreater(volumeSpike, 2000)
        THEN [detected |-> TRUE, confidence |-> Min(900, product),
              type |-> "pump and dump"]
        ELSE [detected |-> FALSE, confidence |-> 0, type |-> ""]

detectTradingPatternAnomalies(data, cfg) ==
    LET Of(i) ==
            LET pattern == detectPumpAndDump(data, i)
            IN  IF pattern.detected
                THEN <<Candidate(<<"pattern", i, "price">>, data[i + 1].date,
                         Num(data[i + 1].close),
                         Mul(Mul(pattern.confidence, cfg.weight), Num(10)),
                         "price", Severity(pattern.confidence, 800, 600),
                         Part("Potential pump and dump pattern detected with %% confidence",
                              ToFixed(Mul(pattern.confidence, Num(100)), 1)))>>
                ELSE <<>>
    IN  Flatten([k \in 1..Max(0, Len(data) - 5) |-> Of(k + 2)])

IsSignificantPriceMoveInclusive(priceChange) == priceChange >= 50

\* priceChange > 0.05
IsSignificantPriceMove(priceChange) == priceChange > 50

detectSimpleAnomalies(data) ==
    LET Of(i) ==
            LET prevDay == data[i - 1]
                currentDay == data[i]
                priceChange == Abs(Div(Num(currentDay.close - prevDay.close),
                                       Num(prevDay.close)))
                volumeChange == IF prevDay.volume > 0
                                THEN Abs(Div(Num(currentDay.volume),
                                             Num(prevDay.volume)) - Scale)
                                ELSE 0
            IN  (IF IsSignificantPriceMove(priceChange)
                 THEN <<Candidate(<<"simple", i, "price">>, currentDay.date,
                          Num(currentDay.close), Mul(priceChange, Num(20)),
                          "price", Severity(priceChange, 100, 75),
                          Part("Significant price movement: %% change",
                               ToFixed(Mul(priceChange, Num(100)), 2)))>>
                 ELSE <<>>)
                \o
                (IF volumeChange > Scale
                 THEN <<Candidate(<<"simple", i, "volume">>, currentDay.date,
                          Num(currentDay.volume), Mul(volumeChange, Num(5)),
                          "volume", Severity(volumeChange, 3000, 2000),
                          Part("Unusual volume activity: %% of previous day",
                               ToFixed(Mul(volumeChange, Num(100)), 0)))>>
                 ELSE <<>>)
    IN  Flatten([k \in 1..Max(0, Len(data) - 1) |-> Of(k + 1)])


(***************************************************************************)
(* detectAnomalies                                                         *)
(***************************************************************************)
\* a null series (the `!stockData` test)
Null == <<[null |-> TRUE]>>

IsEmpty(data) == data = Null \/ Len(data) = 0

\* the order in which detectAnomalies pushes the detectors' lists
DetectorOrder ==
    <<"zscore", "bollingerBands", "macd", "isolationForest", "patternDetection">>

\* every advanced detector run whatever its enabled flag says
DetectorOutputsFlagsIgnored(data, cfg) ==
    IF Len(data) >= 20
    THEN [zscore |-> detectZScoreAnomalies(data, cfg.zscore),
          bollingerBands |-> detectBollingerBandsAnomalies(data, cfg.bollingerBands),
          macd |-> detectMACDAnomalies(data, cfg.macd),
          isolationForest |-> detectIsolationForestAnomalies(data, cfg.isolationForest),
          patternDetection |-> detectTradingPatternAnomalies(data, cfg.patternDetection),
          simple |-> <<>>]
    ELSE [zscore |-> <<>>, bollingerBands |-> <<>>, macd |-> <<>>,
          isolationForest |-> <<>>, patternDetection |-> <<>>,
          simple |-> detectSimpleAnomalies(data)]

\* what each detector contributes to `anomalies` (nothing when it is disabled
\* or when the other branch of the length test is taken)
DetectorOutputs(data, cfg) ==
    IF Len(data) >= 20
    THEN [zscore |-> IF cfg.zscore.enabled
                     THEN detectZScoreAnomalies(data, cfg.zscore) ELSE <<>>,
          bollingerBands |-> IF cfg.bollingerBands.enabled
                     THEN detectBollingerBandsAnomalies(data, cfg.bollingerBands)
                     ELSE <<>>,
          macd |-> IF cfg.macd.enabled
                     THEN detectMACDAnomalies(data, cfg.macd) ELSE <<>>,
          isolationForest |-> IF cfg.isolationForest.enabled
                     THEN detectIsolationForestAnomalies(data, cfg.isolationForest)
                     ELSE <<>>,
          patternDetection |-> IF cfg.patternDetection.enabled
                     THEN detectTradingPatternAnomalies(data, cfg.patternDetection)
                     ELSE <<>>,
          simple |-> <<>>]
    ELSE [zscore |-> <<>>, bollingerBands |-> <<>>, macd |-> <<>>,
          isolationForest |-> <<>>, patternDetection |-> <<>>,
          simple |-> detectSimpleAnomalies(data)]

NoOutputs ==
    [zscore |-> <<>>, bollingerBands |-> <<>>, macd |-> <<>>,
     isolationForest |-> <<>>, patternDetection |-> <<>>, simple |-> <<>>]

\* the `anomalies` array when the detectors' lists are pushed in `order`
Pushed(out, order) ==
    Flatten([k \in 1..Len(order) |-> out[order[k]]]) \o out.simple


(***************************************************************************)
(* Metrics: fetchStockMetrics and calculateRSI                             *)
(***************************************************************************)
\* values standing for Math.random() * 20, which lies in [0, 20)
RandomOffsets == {0, 10000, 19999}

\* data.slice(-k)
LastBars(data, k) == Slice(data, Len(data) - Min(k, Len(data)), Len(data))

\* the gains and losses summed by the loop of calculateRSI, then the index
RSIOf(data) ==
    LET change == [i \in 1..(Len(data) - 1) |->
                      Num(data[i + 1].close) - Num(data[i].close)]
        gains == SumSeq([i \in 1..Len(change) |->
                            IF change[i] > 0 THEN change[i] ELSE 0])
        losses == SumSeq([i \in 1..Len(change) |->
                             IF change[i] > 0 THEN 0 ELSE -change[i]])
        avgGain == gains \div (Len(data) - 1)
        avgLoss == losses \div (Len(data) - 1)
        rs == Div(avgGain, avgLoss)
        rsi == Num(100) - Div(Num(100), Scale + rs)
    IN  IF avgLoss = 0 THEN Num(100)
        ELSE ToFixed(rsi, 2) * 10

calculateRSIShortDefault(data) ==
    IF Len(data) < 14 THEN {Num(50)} ELSE {RSIOf(data)}

\* calculateRSI of stockData.ts: the values it can return
calculateRSI(data) ==
    IF Len(data) < 2
    THEN IF Len(data) = 1
         THEN IF data[1].close > data[1].open
              THEN {Num(60) + r : r \in RandomOffsets}
              ELSE {Num(20) + r : r \in RandomOffsets}
         ELSE {Num(50)}
    ELSE {RSIOf(data)}

\* calculateRSI of the earlier revision
calculateRSI_part003(data) ==
    IF Len(data) < 14 THEN Num(50) ELSE RSIOf(data)

\* the daily returns of the bars of recentData
Returns(recentData) ==
    [i \in 1..(Len(recentData) - 1) |->
        Div(Num(recentData[i + 1].close - recentData[i].close),
            Num(recentData[i].close))]

\* Math.sqrt(variance) * Math.sqrt(252) * 100 for the given returns (not empty)
Volatility(returns) ==
    LET meanReturn == calculateMean(returns)
        variance == calculateMean([i \in 1..Len(returns) |->
                                      Sq(returns[i] - meanReturn)])
    IN  Mul(Mul(Sqrt(variance), Sqrt(Num(252))), Num(100))

\* the values Math.floor(Math.random() * k) can take
RandomBelow(k) == 0..(k - 1)

DefaultMetrics ==
    [kind |-> "returned", currentPrice |-> 0, dailyChange |-> 0,
     dailyChangePercent |-> 0, averageVolume |-> 0, anomalyCount |-> 0,
     volatility |-> [kind |-> "num", v |-> 0], rsi |-> Num(50)]

Thrown == [kind |-> "thrown"]

\* fetchStockMetrics of stockData.ts: the records it can resolve to
fetchStockMetrics(data) ==
    IF IsEmpty(data) THEN {DefaultMetrics}
    ELSE
    LET n == Len(data)
        latest == data[n]
        dailyChange == IF n > 1 THEN Num(latest.close - data[n - 1].close)
                       ELSE Num(latest.close - latest.open)
        dailyChangePercent ==
            IF n > 1 THEN Mul(Div(dailyChange, Num(data[n - 1].close)), Num(100))
            ELSE Mul(Div(dailyChange, Num(latest.open)), Num(100))
        recentData == LastBars(data, 20)
        averageVolume == calculateMean(Volumes(recentData))
        returns == IF Len(recentData) > 1 THEN Returns(recentData)
                   ELSE <<Div(Num(recentData[1].high - recentData[1].low),
                              Num(recentData[1].open))>>
        anomalyCounts == IF n = 1 THEN {0} \cup {c + 1 : c \in RandomBelow(2)}
                         ELSE RandomBelow(IF n > 5 THEN 5 ELSE n)
    IN  {[kind |-> "returned", currentPrice |-> Num(latest.close),
          dailyChange |-> dailyChange, dailyChangePercent |-> dailyChangePercent,
          averageVolume |-> averageVolume, anomalyCount |-> c,
          volatility |-> [kind |-> "num", v |-> Volatility(returns)],
          rsi |-> r] : c \in anomalyCounts, r \in calculateRSI(LastBars(data, 15))}

\* fetchStockMetrics of the earlier revision (src/unnamed/part_003)
fetchStockMetrics_part003(data) ==
    IF IsEmpty(data) THEN {Thrown}
    ELSE
    LET n == Len(data)
        latest == data[n]
        previousDay == IF n >= 2 THEN data[n - 1] ELSE data[1]
        dailyChange == Num(latest.close - previousDay.close)
        recentData == LastBars(data, 20)
        returns == Returns(recentData)
    IN  {[kind |-> "returned", currentPrice |-> Num(latest.close),
          dailyChange |-> dailyChange,
          dailyChangePercent |->
              Mul(Div(dailyChange, Num(previousDay.close)), Num(100)),
          averageVolume |-> calculateMean(Volumes(recentData)),
          anomalyCount |-> c,
          volatility |-> IF Len(returns) = 0 THEN [kind |-> "nan", v |-> 0]
                         ELSE [kind |-> "num", v |-> Volatility(returns)],
          rsi |-> calculateRSI_part003(LastBars(data, 15))] : c \in RandomBelow(5)}

(***************************************************************************)
(* Inputs                                                                  *)
(***************************************************************************)
MaxLen == 36

MaxOdd == 2

SeriesLengths == {0, 1, 6, 19, 20, 25, MaxLen}

\* the bars that may differ from the flat bar, by 1-based position
OddPositions == {4, 10, 20, 21}

\* the bars a flat series repeats
FlatBars ==
    {[open |-> 100, high |-> 100, low |-> 100, close |-> 100, volume |-> 1],
     [open |-> 33, high |-> 33, low |-> 33, close |-> 33, volume |-> 0]}

FlatBar == [open |-> 100, high |-> 100, low |-> 100, close |-> 100, volume |-> 1]

OddBars ==
    {[open |-> 100, high |-> 150, low |-> 100, close |-> 150, volume |-> 1],
     [open |-> 100, high |-> 150, low |-> 100, close |-> 150, volume |-> 3],
     [open |-> 100, high |-> 100, low |-> 100, close |-> 100, volume |-> 3]}

\* bar i of a series: the date is the position, so dates strictly increase
BarAt(i, shape) ==
    [date |-> i, open |-> shape.open, high |-> shape.high, low |-> shape.low,
     close |-> shape.close, volume |-> shape.volume]

\* the series of length n that is flat except at the positions of `odd`
SeriesOf(n, flat, odd) ==
    [i \in 1..n |-> BarAt(i, IF i \in DOMAIN odd THEN odd[i] ELSE flat)]

OddChoices(n) ==
    UNION {[ps -> OddBars] : ps \in {q \in SUBSET (OddPositions \cap 1..n) :
                                        Cardinality(q) <= MaxOdd}}

\* a bar that trades at one price all day, volume 1
PriceBar(c) == [open |-> c, high |-> c, low |-> c, close |-> c, volume |-> 1]

\* n whole numbers of sum 0 whose squares sum to 4 * n (n >= 5): closes that
\* lie these far from 100 have mean 100 and population standard deviation 2
SpreadDeviations(n) ==
    LET head == IF n % 2 = 0 THEN <<>> ELSE <<0, 3, -3, 1, -1>>
    IN  head \o [i \in 1..(n - Len(head)) |-> IF i % 2 = 1 THEN 2 ELSE -2]

\* a series of n bars spread around 100 except bar k, whose close is c
SeriesWithBar(n, k, c) ==
    LET dev == SpreadDeviations(n - 1)
    IN  [i \in 1..n |-> BarAt(i, PriceBar(IF i = k THEN c
                                           ELSE IF i < k THEN 100 + dev[i]
                                           ELSE 100 + dev[i - 1]))]

\* a series of n bars spread around 100 except bar k, whose close is 110
InjectedSeries(n, k) == SeriesWithBar(n, k, 110)

\* closes of bar 20 inside the Bollinger band (96, 104), just outside it
\* (95, 105) and further outside it
BandCloses == {88, 92, 95, 96, 104, 105, 108, 114}

BandSeriesSet == {SeriesWithBar(n, 20, c) : n \in {20, 21}, c \in BandCloses}

InjectedSeriesSet ==
    {InjectedSeries(n, k) : n \in {20, 21, MaxLen}, k \in {1, 10, 20}}

MaxShort == 3

\* the bars of the short series: closes 5% and 6% above 100, volumes 0 to 3
ShortBars ==
    {[open |-> 100, high |-> 100, low |-> 100, close |-> 100, volume |-> 1],
     [open |-> 100, high |-> 105, low |-> 100, close |-> 105, volume |-> 1],
     [open |-> 100, high |-> 106, low |-> 100, close |-> 106, volume |-> 3],
     [open |-> 100, high |-> 100, low |-> 100, close |-> 100, volume |-> 0],
     [open |-> 100, high |-> 100, low |-> 100, close |-> 100, volume |-> 2]}

\* every series of 1 to MaxShort of these bars
ShortSeriesSet ==
    UNION {{[i \in 1..n |-> BarAt(i, f[i])] : f \in [1..n -> ShortBars]} :
           n \in 1..MaxShort}

\* a series of n bars whose closes move one unit a day and turn at bar `turn`:
\* falling then rising for dir = 1, rising then falling for dir = -1
TurningSeries(n, turn, dir) ==
    [i \in 1..n |-> BarAt(i, PriceBar(120 + dir * Abs(i - turn)))]

TurningSeriesSet ==
    {TurningSeries(n, turn, dir) : n \in {2, 6, 16, 20}, turn \in {1, 6, 7},
                                   dir \in {1, -1}}

InputSeries ==
    {Null}
    \cup TurningSeriesSet
    \cup ShortSeriesSet
    \cup UNION {{SeriesOf(n, FlatBar, odd) : odd \in OddChoices(n)} : n \in SeriesLengths}
    \cup {SeriesOf(n, flat, <<>>) : n \in SeriesLengths, flat \in FlatBars}
    \cup InjectedSeriesSet
    \cup BandSeriesSet

WithEnabled(z, b, m, i, p) ==
    [defaultConfig EXCEPT !.zscore.enabled = z, !.bollingerBands.enabled = b,
                          !.macd.enabled = m, !.isolationForest.enabled = i,
                          !.patternDetection.enabled = p]

Configs ==
    {defaultConfig,
     WithEnabled(TRUE, TRUE, FALSE, FALSE, FALSE),
     WithEnabled(FALSE, FALSE, FALSE, FALSE, FALSE),
     [WithEnabled(TRUE, FALSE, FALSE, FALSE, FALSE)
         EXCEPT !.zscore.threshold = 2000, !.zscore.weight = 500],
     [WithEnabled(FALSE, TRUE, FALSE, FALSE, FALSE)
         EXCEPT !.bollingerBands.period = 10, !.bollingerBands.stdDev = 1500],
     [WithEnabled(FALSE, FALSE, FALSE, TRUE, FALSE)
         EXCEPT !.isolationForest.contamination = 0]}

(***************************************************************************)
(* State machine                                                           *)
(***************************************************************************)
\* before any call of calculatePearsonCorrelation
NoCorrelation == [x |-> <<>>, y |-> <<>>, result |-> Null]

\* before any call of fetchStockData
NoFetch == [at |-> "none"]

\* the Portfolio page before it is mounted
NoPortfolio == [at |-> "none"]

\* the Index page before it is mounted
NoPage == [at |-> "none"]

Init ==
    /\ stockData \in InputSeries
    /\ config = defaultConfig
    /\ detected = NoOutputs
    /\ candidates = <<>>
    /\ anomalies = <<>>
    /\ previous = <<>>
    /\ runs = 0
    /\ metrics = [kind |-> "none"]
    /\ correlation = NoCorrelation
    /\ fetch = NoFetch
    /\ portfolio = NoPortfolio
    /\ page = NoPage
    /\ pc = "idle"

\* detectAnomalies(stockData, config)
DetectAnomalies ==
    /\ pc = "idle"
    /\ config' \in Configs
    /\ IF IsEmpty(stockData)
       THEN /\ detected' = NoOutputs
            /\ candidates' = <<>>
            /\ anomalies' = <<>>
            /\ runs' = runs
       ELSE /\ detected' = DetectorOutputs(stockData, config')
            /\ candidates' = Pushed(detected', DetectorOrder)
            /\ anomalies' = applyWeightedScoring(candidates', config')
            /\ runs' = runs + 1
    /\ pc' = "detected"
    /\ UNCHANGED <<stockData, previous, metrics, correlation, fetch,
                   portfolio, page>>

\* fetchStockMetrics(symbol, stockData) of stockData.ts
FetchStockMetrics ==
    /\ pc = "idle"
    /\ \E m \in fetchStockMetrics(stockData) : metrics' = m
    /\ pc' = "metrics"
    /\ UNCHANGED <<stockData, config, detected, candidates, anomalies, previous, runs,
                   correlation, fetch,
                   portfolio, page>>

\* a second call fetchStockMetrics(symbol, stockData) with the same arguments;
\* `previous` keeps what the first call returned
FetchStockMetricsAgain ==
    /\ pc = "metrics"
    /\ previous' = metrics
    /\ \E m \in fetchStockMetrics(stockData) : metrics' = m
    /\ pc' = "metrics_again"
    /\ UNCHANGED <<stockData, config, detected, candidates, anomalies, runs, correlation, fetch,
                   portfolio, page>>

\* fetchStockMetrics(symbol, stockData) of the earlier revision
FetchStockMetrics_part003 ==
    /\ pc = "idle"
    /\ \E m \in fetchStockMetrics_part003(stockData) : metrics' = m
    /\ pc' = "metrics_part003"
    /\ UNCHANGED <<stockData, config, detected, candidates, anomalies, previous, runs,
                   correlation, fetch,
                   portfolio, page>>

Next ==
    \/ DetectAnomalies
    \/ FetchStockMetrics
    \/ FetchStockMetricsAgain
    \/ FetchStockMetrics_part003

Spec == Init /\ [][Next]_vars


(***************************************************************************)
(* The aggregator on its own: applyWeightedScoring on any candidate list   *)
(***************************************************************************)
MaxCands == 3

MaxRuns == 2

\* the (date, type) pairs of the candidates
AggKeys == {<<1, "price">>, <<1, "volume">>, <<2, "price">>}

\* the (score, severity) pairs of the candidates
AggKinds == {<<1000, "low">>, <<1000, "medium">>, <<2000, "high">>}

\* candidate i of a list: its id, value and description tell the members apart
AggCandidate(i, c) ==
    Candidate(<<"candidate", i, c[1][2]>>, c[1][1], Num(i), c[2][1], c[1][2],
              c[2][2], Part("indicator %", i))

CandidateLists ==
    UNION {{[i \in 1..n |-> AggCandidate(i, f[i])] :
               f \in [1..n -> AggKeys \X AggKinds]} :
           n \in 0..MaxCands}

InitAgg ==
    /\ stockData = <<>>
    /\ config = defaultConfig
    /\ detected = NoOutputs
    /\ candidates \in CandidateLists
    /\ anomalies = <<>>
    /\ previous = <<>>
    /\ runs = 0
    /\ metrics = [kind |-> "none"]
    /\ correlation = NoCorrelation
    /\ fetch = NoFetch
    /\ portfolio = NoPortfolio
    /\ page = NoPage
    /\ pc = "idle"

\* applyWeightedScoring(candidates, config), run once more on the same list
ApplyWeightedScoring ==
    /\ runs < MaxRuns
    /\ previous' = anomalies
    /\ anomalies' = applyWeightedScoring(candidates, config)
    /\ runs' = runs + 1
    /\ pc' = "aggregated"
    /\ UNCHANGED <<stockData, config, detected, candidates, metrics, correlation, fetch,
                   portfolio, page>>

NextAgg == ApplyWeightedScoring

SpecAgg == InitAgg /\ [][NextAgg]_vars


(***************************************************************************)
(* Natural numbers of any size, as little-endian sequences of limbs: the   *)
(* mantissas of doubles and their exact sums, products and quotients       *)
(***************************************************************************)
\* a product of two limbs and a carry stays within 32-bit whole numbers
LimbBits == 26 \div 2

Radix == 2 ^ LimbBits

RECURSIVE BigTrim(_)
BigTrim(a) ==
    IF a = <<>> THEN <<>>
    ELSE IF a[Len(a)] = 0 THEN BigTrim(SubSeq(a, 1, Len(a) - 1))
    ELSE a

Rest(a) == IF a = <<>> THEN <<>> ELSE Tail(a)

First(a) == IF a = <<>> THEN 0 ELSE a[1]

RECURSIVE BigAddCarry(_, _, _)
BigAddCarry(a, b, carry) ==
    IF a = <<>> /\ b = <<>> THEN (IF carry = 0 THEN <<>> ELSE <<carry>>)
    ELSE LET s == First(a) + First(b) + carry
         IN  <<s % Radix>> \o BigAddCarry(Rest(a), Rest(b), s \div Radix)

BigAdd(a, b) == BigAddCarry(a, b, 0)

RECURSIVE BigSubBorrow(_, _, _)
BigSubBorrow(a, b, borrow) ==
    IF a = <<>> THEN <<>>
    ELSE LET d == a[1] - First(b) - borrow
         IN  <<IF d < 0 THEN d + Radix ELSE d>>
                 \o BigSubBorrow(Tail(a), Rest(b), IF d < 0 THEN 1 ELSE 0)

\* a - b for a >= b
BigSub(a, b) == BigTrim(BigSubBorrow(a, b, 0))

RECURSIVE BigCmpFrom(_, _, _)
BigCmpFrom(a, b, i) ==
    IF i = 0 THEN 0
    ELSE IF a[i] > b[i] THEN 1
    ELSE IF a[i] < b[i] THEN -1
    ELSE BigCmpFrom(a, b, i - 1)

\* -1, 0 or 1 as a is less than, equal to or greater than b
BigCmp(a, b) ==
    IF Len(a) > Len(b) THEN 1
    ELSE IF Len(a) < Len(b) THEN -1
    ELSE BigCmpFrom(a, b, Len(a))

RECURSIVE BigMulSmallCarry(_, _, _)
BigMulSmallCarry(a, m, carry) ==
    IF a = <<>> THEN (IF carry = 0 THEN <<>> ELSE <<carry>>)
    ELSE LET p == a[1] * m + carry
         IN  <<p % Radix>> \o BigMulSmallCarry(Tail(a), m, p \div Radix)

\* a * m for 0 <= m <= Radix
BigMulSmall(a, m) == IF m = 0 THEN <<>> ELSE BigMulSmallCarry(a, m, 0)

ZeroLimbs(q) == [i \in 1..q |-> 0]

RECURSIVE BigMul(_, _)
BigMul(a, b) ==
    IF a = <<>> \/ b = <<>> THEN <<>>
    ELSE LET high == BigMul(a, Tail(b))
         IN  BigAdd(BigMulSmall(a, b[1]),
                    IF high = <<>> THEN <<>> ELSE <<0>> \o high)

RECURSIVE BitLenSmall(_)
BitLenSmall(v) == IF v = 0 THEN 0 ELSE 1 + BitLenSmall(v \div 2)

\* the number of bits of a
BigBitLen(a) ==
    IF a = <<>> THEN 0 ELSE LimbBits * (Len(a) - 1) + BitLenSmall(a[Len(a)])

\* a * 2^k
BigShl(a, k) ==
    IF a = <<>> THEN <<>>
    ELSE ZeroLimbs(k \div LimbBits) \o BigMulSmall(a, 2 ^ (k % LimbBits))

RECURSIVE BigDivSmallRem(_, _, _)
BigDivSmallRem(a, m, rem) ==
    IF a = <<>> THEN <<>>
    ELSE LET cur == rem * Radix + a[Len(a)]
         IN  BigDivSmallRem(SubSeq(a, 1, Len(a) - 1), m, cur % m) \o <<cur \div m>>

\* a \div 2^k
BigShr(a, k) ==
    IF k \div LimbBits >= Len(a) THEN <<>>
    ELSE BigTrim(BigDivSmallRem(SubSeq(a, k \div LimbBits + 1, Len(a)),
                                2 ^ (k % LimbBits), 0))

BigIsOdd(a) == a # <<>> /\ a[1] % 2 = 1

BigOne == <<1>>

RECURSIVE BigFromNat(_)
BigFromNat(n) == IF n = 0 THEN <<>> ELSE <<n % Radix>> \o BigFromNat(n \div Radix)


(***************************************************************************)
(* The numbers of the correlation code are IEEE-754 doubles: a finite one  *)
(* is neg, m, e with value (+/-) m * 2^e, m being zero or a whole number   *)
(* of exactly MantissaBits bits; every operation rounds its exact result   *)
(* to the nearest such number, ties to the even mantissa.  The exponent is *)
(* unbounded (no overflow, no subnormals) and zero carries no sign.        *)
(***************************************************************************)
\* 52 stored bits and the leading one
MantissaBits == 52 + 1

DNaN == [kind |-> "nan"]

DZero == [kind |-> "num", neg |-> FALSE, m |-> <<>>, e |-> 0]

IsDZero(a) == a.kind = "num" /\ a.m = <<>>

\* the double nearest to (+/-) (N + f) * 2^e, where 0 < f < 1 if sticky and
\* f = 0 otherwise; with sticky, N has more than MantissaBits bits
RoundToDouble(neg, N, e, sticky) ==
    IF N = <<>> THEN DZero
    ELSE LET bits == BigBitLen(N)
         IN  IF bits <= MantissaBits
                 THEN [kind |-> "num", neg |-> neg,
                       m |-> BigShl(N, MantissaBits - bits),
                       e |-> e - (MantissaBits - bits)]
                 ELSE LET shift == bits - MantissaBits
                          q     == BigShr(N, shift)
                          rem   == BigSub(N, BigShl(q, shift))
                          half  == BigCmp(rem, BigShl(BigOne, shift - 1))
                          up    == \/ half = 1
                                   \/ half = 0 /\ (sticky \/ BigIsOdd(q))
                          r     == IF up THEN BigAdd(q, BigOne) ELSE q
                      IN  IF BigBitLen(r) > MantissaBits
                              THEN [kind |-> "num", neg |-> neg,
                                    m |-> BigShr(r, 1), e |-> e + shift + 1]
                              ELSE [kind |-> "num", neg |-> neg,
                                    m |-> r, e |-> e + shift]

\* a whole number as a double
FromInt(n) ==
    RoundToDouble(n < 0, BigFromNat(IF n < 0 THEN -n ELSE n), 0, FALSE)

\* a + b
FAdd(a, b) ==
    IF a.kind = "nan" \/ b.kind = "nan" THEN DNaN
    ELSE IF IsDZero(a) THEN b
    ELSE IF IsDZero(b) THEN a
    ELSE LET emin == IF a.e < b.e THEN a.e ELSE b.e
             A    == BigShl(a.m, a.e - emin)
             B    == BigShl(b.m, b.e - emin)
             cmp  == BigCmp(A, B)
         IN  IF a.neg = b.neg THEN RoundToDouble(a.neg, BigAdd(A, B), emin, FALSE)
             ELSE IF cmp = 0 THEN DZero
             ELSE IF cmp = 1 THEN RoundToDouble(a.neg, BigSub(A, B), emin, FALSE)
             ELSE RoundToDouble(b.neg, BigSub(B, A), emin, FALSE)

FNeg(a) == IF a.kind = "nan" \/ IsDZero(a) THEN a ELSE [a EXCEPT !.neg = ~a.neg]

\* a - b
FSub(a, b) == FAdd(a, FNeg(b))

\* a * b
FMul(a, b) ==
    IF a.kind = "nan" \/ b.kind = "nan" THEN DNaN
    ELSE IF IsDZero(a) \/ IsDZero(b) THEN DZero
    ELSE RoundToDouble(a.neg # b.neg, BigMul(a.m, b.m), a.e + b.e, FALSE)

\* the largest digit d in lo..hi with d * B <= R, by bisection
RECURSIVE DivDigit(_, _, _, _)
DivDigit(R, B, lo, hi) ==
    IF lo = hi THEN lo
    ELSE LET mid == (lo + hi + 1) \div 2
         IN  IF BigCmp(BigMulSmall(B, mid), R) <= 0
                 THEN DivDigit(R, B, mid, hi)
                 ELSE DivDigit(R, B, lo, mid - 1)

\* one more quotient limb of a long division by B: qr is <<quotient so far,
\* remainder so far>>, the remainder being less than B
DivStep(qr, B) ==
    LET R2 == IF qr[2] = <<>> THEN <<>> ELSE <<0>> \o qr[2]
        d  == DivDigit(R2, B, 0, Radix - 1)
    IN  <<IF qr[1] = <<>> /\ d = 0 THEN <<>> ELSE <<d>> \o qr[1],
          BigSub(R2, BigMulSmall(B, d))>>

\* k more quotient limbs
RECURSIVE DivLimbs(_, _, _)
DivLimbs(qr, B, k) == IF k = 0 THEN qr ELSE DivStep(DivLimbs(qr, B, k - 1), B)

\* quotient limbs computed below the point: more than MantissaBits + 2 bits
DivGuardLimbs == 1 + (MantissaBits + 2) \div LimbBits

\* a / b for b other than zero; 0/0 is NaN and x/0 is not produced by the
\* code modelled here (its division is guarded)
FDiv(a, b) ==
    IF a.kind = "nan" \/ b.kind = "nan" \/ IsDZero(b) THEN DNaN
    ELSE IF IsDZero(a) THEN DZero
    ELSE LET first == BigCmp(a.m, b.m) >= 0
             R0    == IF first THEN BigSub(a.m, b.m) ELSE a.m
             qr    == DivLimbs(<<IF first THEN BigOne ELSE <<>>, R0>>, b.m, DivGuardLimbs)
         IN  RoundToDouble(a.neg # b.neg, qr[1],
                           a.e - b.e - DivGuardLimbs * LimbBits, qr[2] # <<>>)

\* r with its limb j (counted from 0) replaced by d
SetLimb(r, j, d) ==
    BigTrim([i \in 1..(IF Len(r) > j + 1 THEN Len(r) ELSE j + 1) |->
                IF i = j + 1 THEN d ELSE IF i <= Len(r) THEN r[i] ELSE 0])

\* the largest digit d in lo..hi for which r with limb j set to d has a
\* square of at most N, by bisection
RECURSIVE SqrtDigit(_, _, _, _, _)
SqrtDigit(N, r, j, lo, hi) ==
    IF lo = hi THEN lo
    ELSE LET mid == (lo + hi + 1) \div 2
             t   == SetLimb(r, j, mid)
         IN  IF BigCmp(BigMul(t, t), N) <= 0
                 THEN SqrtDigit(N, r, j, mid, hi)
                 ELSE SqrtDigit(N, r, j, lo, mid - 1)

SqrtStep(N, r, j) == SetLimb(r, j, SqrtDigit(N, r, j, 0, Radix - 1))

\* the largest r with r * r <= N and r < Radix^top, found limb by limb
\* from limb top - 1 down to limb j
RECURSIVE BigSqrtLimbs(_, _, _)
BigSqrtLimbs(N, j, top) ==
    IF j >= top THEN <<>> ELSE SqrtStep(N, BigSqrtLimbs(N, j + 1, top), j)

SqrtShift == 2 * (MantissaBits - 25)

\* Math.sqrt(a): NaN for a negative a
FSqrt(a) ==
    IF a.kind = "nan" THEN DNaN
    ELSE IF IsDZero(a) THEN DZero
    ELSE IF a.neg THEN DNaN
    ELSE LET odd == a.e % 2 # 0
             radicand == BigShl(a.m, SqrtShift + (IF odd THEN 1 ELSE 0))
             expo     == a.e - SqrtShift - (IF odd THEN 1 ELSE 0)
             root     == BigSqrtLimbs(radicand, 0, (Len(radicand) + 1) \div 2)
         IN  RoundToDouble(FALSE, root, expo \div 2, BigMul(root, root) # radicand)


(***************************************************************************)
(* calculatePearsonCorrelation(x, y) of AnomalyList.tsx and                *)
(* StockSelector.tsx (the two copies are the same text)                    *)
(***************************************************************************)
\* x.slice(0, n).reduce((a, b) => a + b, 0)
RECURSIVE SumOf(_, _)
SumOf(x, n) == IF n = 0 THEN DZero ELSE FAdd(SumOf(x, n - 1), x[n])

\* x.slice(0, n).reduce((sum, xi, i) => sum + xi * y[i], 0)
RECURSIVE SumOfProducts(_, _, _)
SumOfProducts(x, y, n) ==
    IF n = 0 THEN DZero ELSE FAdd(SumOfProducts(x, y, n - 1), FMul(x[n], y[n]))

\* n * sumX2 - sumX * sumX
ScaledVariance(x, n) ==
    FSub(FMul(FromInt(n), SumOfProducts(x, x, n)), FMul(SumOf(x, n), SumOf(x, n)))

PearsonNumerator(x, y, n) ==
    FSub(FMul(FromInt(n), SumOfProducts(x, y, n)), FMul(SumOf(x, n), SumOf(y, n)))

PearsonDenominator(x, y, n) ==
    FSqrt(FMul(ScaledVariance(x, n), ScaledVariance(y, n)))

calculatePearsonCorrelation(x, y) ==
    LET n == IF Len(x) < Len(y) THEN Len(x) ELSE Len(y)
    IN  IF n = 0 THEN DZero
        ELSE LET denominator == PearsonDenominator(x, y, n)
             IN  IF IsDZero(denominator) THEN DZero
                 ELSE FDiv(PearsonNumerator(x, y, n), denominator)

\* a price of a whole number of cents, as the double nearest to it
Price(cents) == FDiv(FromInt(cents), FromInt(100))

PearsonCents == {33, 250, 12345}

PearsonPrices == {Price(c) : c \in PearsonCents}

MaxSeries == 3

\* the close prices of a stock: every series of up to MaxSeries prices
PriceSeries == UNION {[1..n -> PearsonPrices] : n \in 0..MaxSeries}

ConstantSeries == {[i \in 1..n |-> p] : p \in PearsonPrices, n \in 0..MaxSeries}

\* the argument pairs: a series with itself, with every constant series and
\* with its own prefix one shorter
PearsonArguments ==
    {<<x, x>> : x \in PriceSeries}
        \cup (PriceSeries \X ConstantSeries)
        \cup {<<x, SubSeq(x, 1, Len(x) - 1)>> : x \in PriceSeries \ {<<>>}}

InitPearson ==
    /\ stockData = <<>>
    /\ config = defaultConfig
    /\ detected = NoOutputs
    /\ candidates = <<>>
    /\ anomalies = <<>>
    /\ previous = <<>>
    /\ runs = 0
    /\ metrics = [kind |-> "none"]
    /\ correlation \in {[x |-> a[1], y |-> a[2], result |-> Null] : a \in PearsonArguments}
    /\ fetch = NoFetch
    /\ portfolio = NoPortfolio
    /\ page = NoPage
    /\ pc = "idle"

\* calculatePearsonCorrelation(x, y)
CalculatePearsonCorrelation ==
    /\ pc = "idle"
    /\ correlation' = [correlation EXCEPT
                          !.result = calculatePearsonCorrelation(correlation.x, correlation.y)]
    /\ pc' = "correlation"
    /\ UNCHANGED <<stockData, config, detected, candidates, anomalies, previous, runs,
                   metrics, fetch, portfolio, page>>

NextPearson == CalculatePearsonCorrelation

SpecPearson == InitPearson /\ [][NextPearson]_vars

(***************************************************************************)
(* Properties                                                              *)
(***************************************************************************)
Idx(s) == 1..Len(s)

\* the (date, type) pair of a candidate or record
KeyOf(a) == <<a.date, a.type>>

\* the positions of the candidates of one (date, type) group
Members(s, key) == {i \in Idx(s) : KeyOf(s[i]) = key}

\* the position of the first candidate of a group
FirstMember(s, key) == CHOOSE i \in Members(s, key) : \A j \in Members(s, key) : i <= j

\* the position of member number k (1-based) of a group, in submission order
MemberAt(s, key, k) ==
    CHOOSE i \in Members(s, key) :
        Cardinality({j \in Members(s, key) : j < i}) = k - 1

RECURSIVE ScoreSum(_, _, _)
ScoreSum(s, key, n) ==
    IF n = 0 THEN 0
    ELSE ScoreSum(s, key, n - 1) + (IF KeyOf(s[n]) = key THEN s[n].score ELSE 0)

HighestSeverity(s, key) ==
    IF \E i \in Members(s, key) : s[i].severity = "high" THEN "high"
    ELSE IF \E i \in Members(s, key) : s[i].severity = "medium" THEN "medium"
    ELSE "low"

HasPart(r, txt) == \E p \in Idx(r.description) : r.description[p].txt = txt

IsMerged(r) == r.description[1] = MultiplePrefix

Returned == pc \in {"metrics", "metrics_part003"}

\* C1: for an empty or null series detectAnomalies returns the empty list and
\* fetchStockMetrics returns the default record (zeros, rsi 50) without raising.
C1_EmptySeriesNeutral ==
    IsEmpty(stockData) =>
        /\ pc = "detected" => anomalies = <<>>
        /\ Returned => metrics = DefaultMetrics

\* the series of C2: 25 bars, every close 100 except the close 150 of bar b
C2_Series(b) ==
    /\ stockData # Null
    /\ Len(stockData) = 25
    /\ \A i \in Idx(stockData) : stockData[i].close = IF i = b THEN 150 ELSE 100

\* C2: on a 25-bar series flat at 100 with bar 20 at 150 (bar 20 counted from 0
\* or from 1), the default config gives a price record dated at that bar with
\* severity high, merged from the Z-Score and the Bollinger candidate.
C2_SpikeMergedHigh ==
    \A b \in {20, 21} :
        (pc = "detected" /\ config = defaultConfig /\ C2_Series(b)) =>
            \E k \in Idx(anomalies) :
                /\ anomalies[k].type = "price"
                /\ anomalies[k].date = stockData[b].date
                /\ anomalies[k].severity = "high"
                /\ Len(anomalies[k].description) > 1
                /\ IsMerged(anomalies[k])
                /\ HasPart(anomalies[k],
                       "Z-Score price outlier: % standard deviations from mean")
                /\ HasPart(anomalies[k],
                       "Bollinger Bands breach: Price above upper band by %%")

C2_Witness ==
    /\ pc = "detected"
    /\ config = defaultConfig
    /\ C2_Series(21)
    /\ \E k \in Idx(anomalies) : anomalies[k].date = 21 /\ IsMerged(anomalies[k])

\* C3: no two records of the output of detectAnomalies share (date, type), and
\* every candidate is represented by exactly one record, that of its group.
C3_Deduplicated ==
    pc = "detected" =>
        /\ \A i, j \in Idx(anomalies) :
               i # j => KeyOf(anomalies[i]) # KeyOf(anomalies[j])
        /\ \A c \in Idx(candidates) :
               Cardinality({k \in Idx(anomalies) :
                               KeyOf(anomalies[k]) = KeyOf(candidates[c])}) = 1
        /\ \A k \in Idx(anomalies) : Members(candidates, KeyOf(anomalies[k])) # {}

C3_Witness ==
    /\ pc = "detected"
    /\ Len(anomalies) >= 2
    /\ \E k \in Idx(anomalies) :
           Cardinality(Members(candidates, KeyOf(anomalies[k]))) >= 3

\* the candidates a detector emits when its weight is 1
UnitWeight(cfg) == [cfg EXCEPT !.weight = Scale]

\* C4: the score of every output record is the plain sum of the scores of the
\* candidates of its (date, type) group; a candidate's score carries its own
\* detector's weight from the moment it is emitted (shown for the detectors
\* whose score is a single product: Z-Score and Isolation-Score).
C4_ScoreIsPlainSum ==
    pc = "detected" =>
        /\ \A k \in Idx(anomalies) :
               anomalies[k].score =
                   ScoreSum(candidates, KeyOf(anomalies[k]), Len(candidates))
        /\ (~IsEmpty(stockData) /\ Len(stockData) >= 20 /\ config.zscore.enabled) =>
               LET unit == detectZScoreAnomalies(stockData, UnitWeight(config.zscore))
               IN  /\ Len(unit) = Len(detected.zscore)
                   /\ \A i \in Idx(unit) :
                          detected.zscore[i].score =
                              Mul(unit[i].score, config.zscore.weight)
        /\ (~IsEmpty(stockData) /\ Len(stockData) >= 20
              /\ config.isolationForest.enabled) =>
               LET unit == detectIsolationForestAnomalies(stockData,
                               UnitWeight(config.isolationForest))
               IN  /\ Len(unit) = Len(detected.isolationForest)
                   /\ \A i \in Idx(unit) :
                          detected.isolationForest[i].score =
                              Mul(unit[i].score, config.isolationForest.weight)

C4_Witness ==
    /\ pc = "detected"
    /\ \E k \in Idx(anomalies) :
           /\ Cardinality(Members(candidates, KeyOf(anomalies[k]))) >= 2
           /\ \A c \in Members(candidates, KeyOf(anomalies[k])) :
                  0 < candidates[c].score /\ candidates[c].score < anomalies[k].score

\* C5: the severity of a merged record is the highest severity of its members
\* (high > medium > low), whatever their order in the group.
C5_HighestSeverity ==
    runs >= 1 =>
        \A k \in Idx(anomalies) :
            Cardinality(Members(candidates, KeyOf(anomalies[k]))) > 1 =>
                anomalies[k].severity =
                    HighestSeverity(candidates, KeyOf(anomalies[k]))

C5_Witness ==
    /\ runs >= 1
    /\ \E k \in Idx(anomalies) :
           LET key == KeyOf(anomalies[k])
           IN  /\ Cardinality(Members(candidates, key)) = 3
               /\ candidates[MemberAt(candidates, key, 1)].severity = "medium"
               /\ candidates[MemberAt(candidates, key, 2)].severity = "high"
               /\ candidates[MemberAt(candidates, key, 3)].severity = "low"
               /\ anomalies[k].severity = "high"

\* the description of a merged record: the prefix, then the members'
\* descriptions in submission order with "; " between them
DescriptionMatches(r, s, key) ==
    LET n == Cardinality(Members(s, key))
    IN  /\ Len(r.description) = 2 * n
        /\ r.description[1] = MultiplePrefix
        /\ \A k \in 1..n :
               /\ r.description[2 * k] = s[MemberAt(s, key, k)].description[1]
               /\ k < n => r.description[2 * k + 1] = Separator

\* C6: a group of one candidate is output unchanged; a larger group is output
\* as one record with the id, date, type and value of its first candidate and
\* the description "Multiple indicators: " followed by the members'
\* descriptions in submission order joined by "; ".
C6_PassThroughAndMerge ==
    runs >= 1 =>
        \A k \in Idx(anomalies) :
            LET key == KeyOf(anomalies[k])
                first == candidates[FirstMember(candidates, key)]
            IN  IF Cardinality(Members(candidates, key)) = 1
                THEN anomalies[k] = first
                ELSE /\ anomalies[k].id = first.id
                     /\ anomalies[k].date = first.date
                     /\ anomalies[k].type = first.type
                     /\ anomalies[k].value = first.value
                     /\ DescriptionMatches(anomalies[k], candidates, key)

C6_Witness ==
    /\ runs >= 1
    /\ \E k \in Idx(anomalies) :
           Cardinality(Members(candidates, KeyOf(anomalies[k]))) = 1
    /\ \E k \in Idx(anomalies) :
           /\ Cardinality(Members(candidates, KeyOf(anomalies[k]))) = 2
           /\ FirstMember(candidates, KeyOf(anomalies[k])) = 2

\* C7: the output of detectAnomalies is sorted by descending score, and records
\* of equal score keep the order in which their groups were created.
C7_SortedStable ==
    pc = "detected" =>
        \A i, j \in Idx(anomalies) :
            i < j =>
                /\ anomalies[i].score >= anomalies[j].score
                /\ anomalies[i].score = anomalies[j].score =>
                       FirstMember(candidates, KeyOf(anomalies[i]))
                           < FirstMember(candidates, KeyOf(anomalies[j]))

C7_Witness ==
    /\ pc = "detected"
    /\ \E i, j \in Idx(anomalies) :
           i < j /\ anomalies[i].score = anomalies[j].score
    /\ \E i, j \in Idx(anomalies) :
           /\ i < j
           /\ anomalies[i].score > anomalies[j].score
           /\ FirstMember(candidates, KeyOf(anomalies[i]))
                  > FirstMember(candidates, KeyOf(anomalies[j]))

\* the permutations of the positions of a list
PositionPermutations(n) == {p \in [1..n -> 1..n] : \A i, j \in 1..n : i # j => p[i] # p[j]}

Permuted(s, p) == [i \in Idx(s) |-> s[p[i]]]

\* the (date, type, score, severity) of the records of a result
GroupResults(res) ==
    {<<KeyOf(res[k]), res[k].score, res[k].severity>> : k \in Idx(res)}

DetectorOrders ==
    {[i \in 1..5 |-> DetectorOrder[p[i]]] : p \in PositionPermutations(5)}

\* a record without its id
Visible(r) ==
    [date |-> r.date, type |-> r.type, value |-> r.value, score |-> r.score,
     severity |-> r.severity, description |-> r.description]

\* a record without its id, its description as the set of its pieces
UpToOrder(r) ==
    [date |-> r.date, type |-> r.type, value |-> r.value, score |-> r.score,
     severity |-> r.severity,
     description |-> {r.description[p] : p \in Idx(r.description)}]

IsConstantSeries(data) ==
    \A i \in Idx(data) :
        /\ data[i].open = data[1].open
        /\ data[i].high = data[1].high
        /\ data[i].low = data[1].low
        /\ data[i].close = data[1].close
        /\ data[i].volume = data[1].volume

\* C10: on a series of at least 20 bars that all have the same open, high, low,
\* close and volume no detector emits a candidate and detectAnomalies returns
\* the empty list.
C10_ConstantSeriesQuiet ==
    (pc = "detected" /\ stockData # Null /\ Len(stockData) >= 20
        /\ IsConstantSeries(stockData)) =>
        /\ detected = NoOutputs
        /\ candidates = <<>>
        /\ anomalies = <<>>

C10_Witness ==
    /\ pc = "detected"
    /\ config = defaultConfig
    /\ stockData # Null
    /\ Len(stockData) >= 35
    /\ IsConstantSeries(stockData)
    /\ stockData[1].volume = 0
    /\ anomalies = <<>>

\* the closes of every bar but bar k
OtherCloses(data, k) ==
    [i \in 1..(Len(data) - 1) |-> IF i < k THEN data[i].close ELSE data[i + 1].close]

\* the closes other than bar k's have mean m and population standard deviation
\* s > 0, both whole numbers, and bar k closes at m + 5 * s
IsInjectedAt(data, k) ==
    LET others == OtherCloses(data, k)
        m == SumSeq(others) \div Len(others)
    IN  /\ SumSeq(others) = m * Len(others)
        /\ \E s \in 1..10 :
               /\ SumSeq([i \in Idx(others) |-> (others[i] - m) * (others[i] - m)])
                      = s * s * Len(others)
               /\ data[k].close = m + 5 * s

\* C11: in a series of at least 20 bars whose closes have mean m and population
\* standard deviation s > 0 apart from one bar that closes at m + 5 * s, the
\* Z-Score detector (threshold 2.5) emits a price candidate of severity high
\* for that bar.
C11_InjectedBarHigh ==
    (pc = "detected" /\ stockData # Null /\ Len(stockData) >= 20
        /\ config.zscore.enabled /\ config.zscore.threshold = 2500) =>
        \A k \in Idx(stockData) :
            IsInjectedAt(stockData, k) =>
                \E c \in Idx(detected.zscore) :
                    /\ detected.zscore[c].date = stockData[k].date
                    /\ detected.zscore[c].type = "price"
                    /\ detected.zscore[c].severity = "high"

C11_Witness ==
    /\ pc = "detected"
    /\ config = defaultConfig
    /\ stockData # Null
    /\ Len(stockData) = 20
    /\ IsInjectedAt(stockData, 10)
    /\ \E c \in Idx(detected.zscore) :
           /\ detected.zscore[c].date = stockData[10].date
           /\ detected.zscore[c].severity = "high"
           /\ detected.zscore[c].score < 900

\* |close[i] - close[i-1]| / close[i-1] > 0.05, in whole numbers (i is 1-based)
PriceMoved(data, i) ==
    Abs(data[i].close - data[i - 1].close) * 100 > 5 * data[i - 1].close

\* volume[i-1] > 0 and |volume[i] / volume[i-1] - 1| > 1, in whole numbers
VolumeMoved(data, i) ==
    /\ data[i - 1].volume > 0
    /\ Abs(data[i].volume - data[i - 1].volume) > data[i - 1].volume

\* the (bar, type) pairs the day-over-day rule flags
FallbackFlags(data) ==
    {<<data[i].date, "price">> : i \in {j \in 2..Len(data) : PriceMoved(data, j)}}
    \cup {<<data[i].date, "volume">> : i \in {j \in 2..Len(data) : VolumeMoved(data, j)}}

\* C12: on a series of 1 to 19 bars no advanced detector contributes, and the
\* output of detectAnomalies holds one price record for every bar that moved
\* more than 5% against the bar before, one volume record for every bar whose
\* volume moved more than 100% against a positive volume before, and nothing
\* else; a one-bar series gives the empty list.
C12_FallbackOnly ==
    (pc = "detected" /\ ~IsEmpty(stockData) /\ Len(stockData) <= 19) =>
        /\ \A d \in {"zscore", "bollingerBands", "macd", "isolationForest",
                      "patternDetection"} : detected[d] = <<>>
        /\ {KeyOf(anomalies[k]) : k \in Idx(anomalies)} = FallbackFlags(stockData)
        /\ Len(anomalies) = Cardinality(FallbackFlags(stockData))
        /\ Len(stockData) = 1 => anomalies = <<>>

C12_Witness ==
    /\ pc = "detected"
    /\ ~IsEmpty(stockData)
    /\ Len(stockData) = 3
    /\ stockData[2].volume = 3 /\ stockData[3].volume = 0
    /\ {KeyOf(anomalies[k]) : k \in Idx(anomalies)}
           = {<<2, "price">>, <<2, "volume">>, <<3, "price">>}

\* C13: on a series of 20 bars or more but fewer than slowPeriod + signalPeriod
\* the MACD detector returns the empty list, detectAnomalies returns, and its
\* output is the aggregation of the candidates of the Z-Score, Bollinger,
\* Isolation-Score and Pattern detectors.
C13_MACDSilentOthersRun ==
    (pc = "detected" /\ ~IsEmpty(stockData) /\ Len(stockData) >= 20
        /\ Len(stockData) < config.macd.slowPeriod + config.macd.signalPeriod) =>
        /\ detected.macd = <<>>
        /\ \A c \in Idx(candidates) : candidates[c].id[1] # "macd"
        /\ anomalies = applyWeightedScoring(
               detected.zscore \o detected.bollingerBands
                   \o detected.isolationForest \o detected.patternDetection, config)

C13_Witness ==
    /\ pc = "detected"
    /\ config = defaultConfig
    /\ ~IsEmpty(stockData)
    /\ Len(stockData) = 25
    /\ detected.macd = <<>>
    /\ detected.zscore # <<>>
    /\ detected.bollingerBands # <<>>
    /\ detected.isolationForest # <<>>
    /\ detected.patternDetection # <<>>
    /\ anomalies # <<>>

PumpPart == "Potential pump and dump pattern detected with %% confidence"

\* C14 as stated: every enabled detector is applied whenever its own length
\* precondition is met (Z-Score and Isolation-Score on every non-empty series,
\* Pattern from 6 bars, Bollinger from `period` bars), so a series of 6 to 19
\* bars that holds a pump-and-dump window yields a Pattern record.
C14_DetectorsApplyByOwnLength ==
    (pc = "detected" /\ ~IsEmpty(stockData)) =>
        /\ config.zscore.enabled =>
               detected.zscore = detectZScoreAnomalies(stockData, config.zscore)
        /\ config.isolationForest.enabled =>
               detected.isolationForest
                   = detectIsolationForestAnomalies(stockData, config.isolationForest)
        /\ (config.patternDetection.enabled /\ Len(stockData) >= 6) =>
               detected.patternDetection
                   = detectTradingPatternAnomalies(stockData, config.patternDetection)
        /\ (config.bollingerBands.enabled
                /\ Len(stockData) >= config.bollingerBands.period) =>
               detected.bollingerBands
                   = detectBollingerBandsAnomalies(stockData, config.bollingerBands)
        /\ (config.patternDetection.enabled /\ Len(stockData) >= 6
                /\ Len(stockData) <= 19
                /\ \E i \in 3..(Len(stockData) - 3) :
                       detectPumpAndDump(stockData, i).detected) =>
               \E k \in Idx(anomalies) : HasPart(anomalies[k], PumpPart)

\* the bars are well formed: positive prices, volume not negative
WellFormed(data) ==
    \A i \in Idx(data) :
        /\ data[i].open > 0 /\ data[i].high > 0
        /\ data[i].low > 0 /\ data[i].close > 0
        /\ data[i].volume >= 0

\* C15 as stated: on well-formed bars no comparison that decides a flag or a
\* severity has a NaN or infinite operand (the z-scores of close and volume,
\* the volume spike of the Pattern detector, the volume change of the fallback
\* detector, the RSI), and every output score is a finite number.
C15_NoNaNInDecisions ==
    /\ (pc = "detected" /\ ~IsEmpty(stockData) /\ WellFormed(stockData)
            /\ Len(stockData) >= 20) =>
           /\ config.zscore.enabled =>
                  \A i \in Idx(stockData) :
                      /\ ZScores(Closes(stockData))[i].kind = "num"
                      /\ ZScores(Volumes(stockData))[i].kind = "num"
           /\ config.patternDetection.enabled =>
                  \A i \in 3..(Len(stockData) - 3) :
                      VolumeSpike(stockData, i).kind = "num"
           /\ \A k \in Idx(anomalies) : anomalies[k].score \in Int
    /\ (pc = "metrics" /\ ~IsEmpty(stockData) /\ WellFormed(stockData)) =>
           metrics.rsi \in Int

\* the positions, but for the first, of the trailing min(15, length) bars
RSIWindow(data) == (Max(1, Len(data) - 14) + 1)..Len(data)

\* C16: for a series of at least 2 bars the rsi of fetchStockMetrics is 100 when
\* no close-to-close change in the trailing min(15, length) bars is negative,
\* 0 when every change in that window is negative, and between 0 and 100 in
\* every case.
C16_RSIBoundaries ==
    (pc = "metrics" /\ ~IsEmpty(stockData) /\ Len(stockData) >= 2) =>
        /\ (\A i \in RSIWindow(stockData) :
                stockData[i].close >= stockData[i - 1].close) =>
               metrics.rsi = Num(100)
        /\ (\A i \in RSIWindow(stockData) :
                stockData[i].close < stockData[i - 1].close) =>
               metrics.rsi = 0
        /\ metrics.rsi >= 0
        /\ metrics.rsi <= Num(100)

C16_Witness ==
    /\ pc = "metrics"
    /\ ~IsEmpty(stockData)
    /\ Len(stockData) = 20
    /\ stockData[2].close > stockData[1].close
    /\ \A i \in RSIWindow(stockData) : stockData[i].close < stockData[i - 1].close
    /\ metrics.rsi = 0

\* C17 as stated: for a series of fewer than 2 bars (none, or exactly one) the
\* rsi returned by fetchStockMetrics is exactly 50.
C17_ShortSeriesRSIFifty ==
    (pc = "metrics" /\ (IsEmpty(stockData) \/ Len(stockData) = 1)) =>
        metrics.rsi = Num(50)

\* C19 as stated: two calls of fetchStockMetrics with the same series return
\* records that are equal in every field.
C19_SameRecordOnEveryCall ==
    pc = "metrics_again" =>
        /\ metrics.currentPrice = previous.currentPrice
        /\ metrics.dailyChange = previous.dailyChange
        /\ metrics.dailyChangePercent = previous.dailyChangePercent
        /\ metrics.averageVolume = previous.averageVolume
        /\ metrics.anomalyCount = previous.anomalyCount
        /\ metrics.volatility = previous.volatility
        /\ metrics.rsi = previous.rsi

\* z = |xs[i] - mean(xs)| / populationStdDev(xs) exceeds a / b, in whole
\* numbers: with d[j] = n * xs[j] - sum(xs), z * z = n * d[i]^2 / sum of d[j]^2
ZDev(xs, j, total) == Len(xs) * xs[j] - total

ZSumSqDev(xs, total) ==
    SumSeq([j \in 1..Len(xs) |-> ZDev(xs, j, total) * ZDev(xs, j, total)])

ZExceedsOf(xs, i, a, b, total) ==
    b * b * Len(xs) * ZDev(xs, i, total) * ZDev(xs, i, total)
        > a * a * ZSumSqDev(xs, total)

ZExceeds(xs, i, a, b) == ZExceedsOf(xs, i, a, b, SumSeq(xs))

\* the severity the unweighted z of xs[i] decides
ZSeverity(xs, i) ==
    IF ZExceeds(xs, i, 3, 1) THEN "high"
    ELSE IF ZExceeds(xs, i, 5, 2) THEN "medium" ELSE "low"

\* the Z-Score candidates of one type are those of the bars of xs whose z
\* exceeds the threshold, with the severity their z decides
ZScoreCandidatesMatch(list, data, xs, type, threshold) ==
    LET ofType == SelectSeq(list, LAMBDA c : c.type = type)
        flagged == {i \in Idx(xs) : ZExceeds(xs, i, (2 * threshold) \div Scale, 2)}
    IN  /\ {ofType[c].date : c \in Idx(ofType)} = {data[i].date : i \in flagged}
        /\ Len(ofType) = Cardinality(flagged)
        /\ \A c \in Idx(ofType) : \A i \in flagged :
               ofType[c].date = data[i].date => ofType[c].severity = ZSeverity(xs, i)

\* C20: on a series of at least 20 bars the Z-Score detector emits a price
\* candidate for exactly the bars whose close has a z above the threshold and a
\* volume candidate for exactly the bars whose volume has; the severity is
\* decided by the unweighted z (high above 3, medium above 2.5, else low) and is
\* the same under another weight, and the score is z times the weight.
C20_ZScoreRule ==
    (pc = "detected" /\ ~IsEmpty(stockData) /\ Len(stockData) >= 20
        /\ config.zscore.enabled) =>
        LET closes == [i \in Idx(stockData) |-> stockData[i].close]
            volumes == [i \in Idx(stockData) |-> stockData[i].volume]
            unit == detectZScoreAnomalies(stockData,
                        [config.zscore EXCEPT !.weight = Scale])
        IN  /\ ZScoreCandidatesMatch(detected.zscore, stockData, closes, "price",
                                     config.zscore.threshold)
            /\ ZScoreCandidatesMatch(detected.zscore, stockData, volumes, "volume",
                                     config.zscore.threshold)
            /\ Len(unit) = Len(detected.zscore)
            /\ \A c \in Idx(unit) :
                   /\ detected.zscore[c].date = unit[c].date
                   /\ detected.zscore[c].type = unit[c].type
                   /\ detected.zscore[c].severity = unit[c].severity
                   /\ detected.zscore[c].score
                          = Mul(unit[c].score, config.zscore.weight)

C20_Witness ==
    /\ pc = "detected"
    /\ ~IsEmpty(stockData)
    /\ Len(stockData) = 20
    /\ config.zscore.weight = 500
    /\ \E c \in Idx(detected.zscore) :
           /\ detected.zscore[c].type = "price"
           /\ detected.zscore[c].severity = "medium"
           /\ detected.zscore[c].score = 1500
    /\ \E c \in Idx(detected.zscore) : detected.zscore[c].type = "volume"


(***************************************************************************)
(* C18: calculatePearsonCorrelation(x, x) is 1 for every non-constant      *)
(* series x; calculatePearsonCorrelation(x, c) is 0 whenever c is a        *)
(* constant series; it is 0 when either series is empty; and the           *)
(* correlation is the one of the first min(len(x), len(y)) elements of     *)
(* both series.                                                            *)
(***************************************************************************)
IsConstantPrices(s) == s # <<>> /\ \A i \in 1..Len(s) : s[i] = s[1]

DOne == FromInt(1)

C18_SelfCorrelationOne ==
    (/\ pc = "correlation"
     /\ correlation.y = correlation.x
     /\ correlation.x # <<>>
     /\ ~IsConstantPrices(correlation.x))
        => correlation.result = DOne

C18_ConstantSeriesZero ==
    pc = "correlation" =>
        (IsConstantPrices(correlation.y) => correlation.result = DZero)

C18_EmptySeriesZero ==
    pc = "correlation" =>
        (correlation.x = <<>> \/ correlation.y = <<>> => correlation.result = DZero)

C18_OnCommonPrefix ==
    pc = "correlation" =>
        LET n == IF Len(correlation.x) < Len(correlation.y)
                     THEN Len(correlation.x) ELSE Len(correlation.y)
        IN  correlation.result =
                calculatePearsonCorrelation(SubSeq(correlation.x, 1, n),
                                            SubSeq(correlation.y, 1, n))

\* C18: all four parts of the claim
C18_PearsonIdentities ==
    /\ C18_SelfCorrelationOne
    /\ C18_ConstantSeriesZero
    /\ C18_EmptySeriesZero
    /\ C18_OnCommonPrefix


(***************************************************************************)
(* Comparisons of whole numbers of any size                                *)
(***************************************************************************)
RECURSIVE BigProduct(_)
BigProduct(factors) ==
    IF factors = <<>> THEN BigOne
    ELSE BigMul(BigFromNat(factors[1]), BigProduct(Tail(factors)))

\* the product of the naturals fs is greater than the product of the naturals gs
ProductGreater(fs, gs) == BigCmp(BigProduct(fs), BigProduct(gs)) = 1

(***************************************************************************)
(* C21: the Bollinger detector                                             *)
(***************************************************************************)
\* the sum over the window w of (n * w[j] - sum(w))^2, n = Len(w): n^3 times
\* the population variance of w
SumSqDevOf(w) ==
    LET total == SumSeq(w)
    IN  SumSeq([j \in 1..Len(w) |-> (Len(w) * w[j] - total) * (Len(w) * w[j] - total)])

\* E / n > r * k * sd(w) for k = a / b and the population standard deviation
\* sd of the window w of n bars, in whole numbers
BeyondBand(E, r, a, b, w) ==
    /\ E > 0
    /\ ProductGreater(<<b, b, Len(w), E, E>>, <<r, r, a, a, SumSqDevOf(w)>>)

\* p * close > q * (SMA + k * sd): the close lies above the upper band
\* (p = q = 1), or by more than the fraction (q - p) / p of the band above it
AboveUpper(w, close, p, q, a, b) ==
    BeyondBand(p * Len(w) * close - q * SumSeq(w), q, a, b, w)

\* p * close < q * (SMA - k * sd): the close lies below the lower band
\* (p = q = 1), or by more than the fraction (p - q) / p of the band below it
BelowLower(w, close, p, q, a, b) ==
    BeyondBand(q * SumSeq(w) - p * Len(w) * close, q, a, b, w)

\* the closes of the `period` bars ending at and including bar i
BandWindow(data, i, period) == [j \in 1..period |-> data[i - period + j].close]

BandBreach(data, i, cfg) ==
    LET w == BandWindow(data, i, cfg.period)
    IN  \/ AboveUpper(w, data[i].close, 1, 1, cfg.stdDev, Scale)
        \/ BelowLower(w, data[i].close, 1, 1, cfg.stdDev, Scale)

\* deviation > 0.05 is high, deviation > 0.02 is medium, with deviation
\* (close - upper) / upper above the band and (lower - close) / lower below it
BandSeverity(data, i, cfg) ==
    LET w == BandWindow(data, i, cfg.period)
        c == data[i].close
    IN  IF \/ AboveUpper(w, c, 20, 21, cfg.stdDev, Scale)
           \/ BelowLower(w, c, 20, 19, cfg.stdDev, Scale) THEN "high"
        ELSE IF \/ AboveUpper(w, c, 50, 51, cfg.stdDev, Scale)
                \/ BelowLower(w, c, 50, 49, cfg.stdDev, Scale) THEN "medium"
        ELSE "low"

\* C21: the Bollinger detector emits one price candidate for exactly the bars
\* i >= period whose close is strictly above SMA + k * sd or strictly below
\* SMA - k * sd of the `period` bars ending at bar i, with the close as value
\* and the severity its relative distance beyond the band decides (high above
\* 0.05, medium above 0.02, else low); it emits nothing for earlier bars.
C21_BollingerRule ==
    (pc = "detected" /\ ~IsEmpty(stockData) /\ Len(stockData) >= 20
        /\ config.bollingerBands.enabled) =>
        LET cfg == config.bollingerBands
            list == detected.bollingerBands
            flagged == {i \in cfg.period..Len(stockData) : BandBreach(stockData, i, cfg)}
        IN  /\ Len(list) = Cardinality(flagged)
            /\ {list[c].date : c \in Idx(list)} = {stockData[i].date : i \in flagged}
            /\ \A c \in Idx(list) :
                   /\ list[c].type = "price"
                   /\ \A i \in flagged :
                          list[c].date = stockData[i].date =>
                              /\ list[c].value = Num(stockData[i].close)
                              /\ list[c].severity = BandSeverity(stockData, i, cfg)


C21_Witness ==
    /\ pc = "detected"
    /\ ~IsEmpty(stockData)
    /\ Len(stockData) = 21
    /\ config.bollingerBands.enabled
    /\ config.bollingerBands.period = 20
    /\ stockData[20].close = 95
    /\ Len(detected.bollingerBands) = 1
    /\ detected.bollingerBands[1].date = stockData[20].date
    /\ detected.bollingerBands[1].severity = "low"


(***************************************************************************)
(* C22: the MACD detector                                                  *)
(***************************************************************************)
\* macdLine[i] - signalLine[i] of every bar: the three EMAs are as long as
\* the series, so index i of each of them belongs to bar i
MACDHistogram(data, cfg) ==
    LET prices == Closes(data)
        fastEMA == calculateEMA(prices, cfg.fastPeriod)
        slowEMA == calculateEMA(prices, cfg.slowPeriod)
        macdLine == [i \in 1..Len(prices) |-> fastEMA[i] - slowEMA[i]]
        signalLine == calculateEMA(macdLine, cfg.signalPeriod)
    IN  [i \in 1..Len(prices) |-> macdLine[i] - signalLine[i]]

\* |h[t]| > 2 * |h[t-1]| and |h[t]| > 0.5
HistogramTriggers(h, t) ==
    /\ Abs(h[t]) > 2 * (IF t > 1 THEN Abs(h[t - 1]) ELSE 0)
    /\ Abs(h[t]) > 500

\* C22: on a series of at least slowPeriod + signalPeriod bars the MACD
\* detector emits a price candidate dated at bar t, with value close[t], for
\* exactly the bars t whose histogram satisfies |h[t]| > 2 * |h[t-1]| and
\* |h[t]| > 0.5.
C22_MACDDatedAtTriggerBar ==
    (pc = "detected" /\ ~IsEmpty(stockData) /\ config.macd.enabled
        /\ Len(stockData) >= config.macd.slowPeriod + config.macd.signalPeriod) =>
        LET h == MACDHistogram(stockData, config.macd)
            flagged == {t \in Idx(stockData) : HistogramTriggers(h, t)}
        IN  /\ {detected.macd[c].date : c \in Idx(detected.macd)}
                   = {stockData[t].date : t \in flagged}
            /\ \A c \in Idx(detected.macd) :
                   /\ detected.macd[c].type = "price"
                   /\ \A t \in Idx(stockData) :
                          detected.macd[c].date = stockData[t].date =>
                              detected.macd[c].value = Num(stockData[t].close)


(***************************************************************************)
(* C23: the Pattern detector                                               *)
(***************************************************************************)
\* the seven bars c-3 .. c+3 around the center c
SevenBars(data, c) == [j \in 1..7 |-> data[c - 4 + j]]

HighestClose(w) == MaxSeq([j \in 1..Len(w) |-> w[j].close])

HighestVolume(w) == MaxSeq([j \in 1..Len(w) |-> w[j].volume])

TotalVolume(w) == SumSeq([j \in 1..Len(w) |-> w[j].volume])

\* pump > 0.10 and dump > 0.08 and spike > 2 on the window w, in whole numbers:
\* pump = (peak - w[1].close) / w[1].close, dump = (peak - last close) / peak,
\* spike = highest volume / mean volume of w
PumpAndDumpOn(w) ==
    LET peak == HighestClose(w)
    IN  /\ 10 * (peak - w[1].close) > w[1].close
        /\ 100 * (peak - w[Len(w)].close) > 8 * peak
        /\ Len(w) * HighestVolume(w) > 2 * TotalVolume(w)

\* (pump + dump) * spike * 0.1 > a / 10 on the window w, in whole numbers
ConfidenceAbove(w, a) ==
    LET peak == HighestClose(w)
    IN  ((peak - w[1].close) * peak + (peak - w[Len(w)].close) * w[1].close)
            * Len(w) * HighestVolume(w)
        > a * w[1].close * peak * TotalVolume(w)

\* C23: a candidate of the Pattern detector is dated at a center c that has the
\* seven bars c-3 .. c+3 around it, and the centers flagged are exactly those
\* whose seven bars show pump > 0.10, dump > 0.08 and volume spike > 2, the
\* severity being decided by the confidence min(0.9, (pump + dump) * spike * 0.1).
C23_PatternOnSevenBars ==
    (pc = "detected" /\ ~IsEmpty(stockData) /\ Len(stockData) >= 20
        /\ config.patternDetection.enabled) =>
        LET list == detected.patternDetection
            flagged == {c \in 4..(Len(stockData) - 3) :
                            PumpAndDumpOn(SevenBars(stockData, c))}
        IN  /\ {list[k].date : k \in Idx(list)} = {stockData[c].date : c \in flagged}
            /\ Len(list) = Cardinality(flagged)
            /\ \A k \in Idx(list) : \A c \in flagged :
                   list[k].date = stockData[c].date =>
                       /\ list[k].type = "price"
                       /\ list[k].value = Num(stockData[c].close)
                       /\ list[k].severity =
                              (IF ConfidenceAbove(SevenBars(stockData, c), 8) THEN "high"
                               ELSE IF ConfidenceAbove(SevenBars(stockData, c), 6)
                                    THEN "medium" ELSE "low")


(***************************************************************************)
(* C24: the Isolation-Score detector                                       *)
(***************************************************************************)
IsolationScores(data) ==
    LET features == [i \in 1..Len(data) |-> Features(data[i])]
    IN  [i \in 1..Len(data) |-> calculateIsolationScore(features[i], features)]

\* floor((1 - contamination) * n), contamination in thousandths
ThresholdIndex(n, contamination) == ((Scale - contamination) * n) \div Scale

\* C24: the threshold index floor((1 - contamination) * n) is inside the array
\* of the n scores; the bars flagged are exactly those whose score is strictly
\* greater than the score at that index of the scores sorted ascending; and at
\* most n - 1 - index bars are flagged.
FlaggedAbove(list, data, scores, threshold) ==
    {list[k].date : k \in Idx(list)}
        = {data[i].date : i \in {j \in Idx(data) : scores[j] > threshold}}

FlaggedAboveIndex(list, data, scores, index) ==
    FlaggedAbove(list, data, scores, SortAscending(scores)[index + 1])

C24_IsolationThreshold ==
    (pc = "detected" /\ ~IsEmpty(stockData) /\ Len(stockData) >= 20
        /\ config.isolationForest.enabled) =>
        LET n == Len(stockData)
            index == ThresholdIndex(n, config.isolationForest.contamination)
            list == detected.isolationForest
        IN  /\ index < n
            /\ FlaggedAboveIndex(list, stockData, IsolationScores(stockData), index)
            /\ Len(list) <= n - 1 - index


(***************************************************************************)
(* C25: every record refers to a bar of the input                          *)
(***************************************************************************)
RefersToBar(a, data) ==
    \E b \in Idx(data) :
        /\ a.date = data[b].date
        /\ a.type = "price" => a.value = Num(data[b].close)
        /\ a.type = "volume" => a.value = Num(data[b].volume)

\* C25: each record detectAnomalies returns has the date of a bar of the series
\* and that bar's close (type price) or volume (type volume) as its value, and
\* there are at most 2 * length records.
C25_RecordsReferToBars ==
    (pc = "detected" /\ ~IsEmpty(stockData)) =>
        /\ \A k \in Idx(anomalies) :
               /\ anomalies[k].type \in {"price", "volume"}
               /\ RefersToBar(anomalies[k], stockData)
        /\ Len(anomalies) <= 2 * Len(stockData)

C25_Witness ==
    /\ pc = "detected"
    /\ ~IsEmpty(stockData)
    /\ Len(stockData) = 36
    /\ detected.macd # <<>>
    /\ \E k \in Idx(anomalies) : \E j \in Idx(anomalies) :
           /\ anomalies[k].date = anomalies[j].date
           /\ anomalies[k].type = "price"
           /\ anomalies[j].type = "volume"
           /\ Len(anomalies[k].description) > 1


(***************************************************************************)
(* C26: disabled detectors                                                 *)
(***************************************************************************)
AllDisabled(cfg) == \A d \in DOMAIN cfg : ~cfg[d].enabled

\* C26 as stated: a detector whose enabled flag is false contributes no
\* candidate, and with all five detectors disabled detectAnomalies returns an
\* empty list for every series, of any length.
C26_AllDisabledQuiet ==
    pc = "detected" =>
        /\ \A d \in DOMAIN config : ~config[d].enabled => detected[d] = <<>>
        /\ AllDisabled(config) => anomalies = <<>>


\* C26, amended: a detector whose enabled flag is false contributes no
\* candidate; with all five detectors disabled detectAnomalies returns an empty
\* list for the empty series and for every series of 20 bars or more, and for
\* a series of 1 to 19 bars it returns what the day-over-day rule flags, which
\* no flag disables.
C26_DisabledDetectorsSilent ==
    pc = "detected" =>
        /\ \A d \in DOMAIN config : ~config[d].enabled => detected[d] = <<>>
        /\ AllDisabled(config) =>
               IF IsEmpty(stockData) THEN anomalies = <<>>
               ELSE IF Len(stockData) >= 20 THEN anomalies = <<>>
               ELSE {KeyOf(anomalies[k]) : k \in Idx(anomalies)}
                        = FallbackFlags(stockData)

C26_Witness ==
    /\ pc = "detected"
    /\ AllDisabled(config)
    /\ ~IsEmpty(stockData)
    /\ Len(stockData) = 36
    /\ stockData[10].close = 150
    /\ stockData[10].volume = 3
    /\ anomalies = <<>>



(***************************************************************************)
(* fetchStockData                                                          *)
(* Times are whole hours since the epoch (a Thursday); prices and factors  *)
(* are fixed-point numbers; a result of Math.random() is one of RandomGrid *)
(* thousandths.  A volume is kept as its whole part and its thousandths,   *)
(* so that a volume which is no integer is seen.                           *)
(***************************************************************************)
DayHours == 24

MaxDays == 3

\* Math.ceil(a / b) for b > 0
Ceil(a, b) == -((-a) \div b)

\* Date.getDay(): 0 is Sunday
getDay(time) == (4 + time \div DayHours) % 7

\* Date.toISOString().split('T')[0]: the day of the time, the hour dropped
isoDate(time) == time \div DayHours

\* the values of `from` and of `to - from`
FromTimes == {d * DayHours + h : d \in 0..6, h \in {0, 13}}

Spans == {-DayHours, 0, 1} \cup {d * DayHours : d \in 1..MaxDays} \cup {DayHours + 1}

\* the values Math.random() returns within one iteration of the loop
CalmDay ==
    [change |-> 500, volatility |-> 500, isAnomaly |-> 999, direction |-> 0,
     size |-> 0, volume |-> 1, volumeAnomaly |-> 999, volumeSize |-> 0]

DayDraws ==
    {CalmDay,
     [CalmDay EXCEPT !.volatility = 0],
     [CalmDay EXCEPT !.volatility = 999, !.change = 999],
     [CalmDay EXCEPT !.isAnomaly = 0, !.direction = 0, !.size = 999],
     [CalmDay EXCEPT !.isAnomaly = 0, !.direction = 999, !.size = 999, !.change = 0],
     [CalmDay EXCEPT !.volumeAnomaly = 0, !.volumeSize = 333]}

\* the values Math.random() returns in the branch of a single day
OneDayDraws ==
    {[volatility |-> v, trend |-> t, volume |-> 1, volumeAnomaly |-> a, volumeSize |-> 333] :
        v \in {0, 999}, t \in {0, 500, 999}, a \in {0, 999}}

StartDraws == {0, 500}

\* volume *= factor, for a whole volume
VolumeTimes(volume, factor) ==
    [whole |-> MulDivAbs(volume, factor, Scale),
     rest  |-> ((volume % Scale) * factor) % Scale]

\* lines 29-52: the bar of the branch minDays === 1
OneDayBar(time, price, r) ==
    LET dayVolatility == 30 + Mul(r.volatility, 40)
        dailyTrend == Mul(r.trend - 500, 20)
        open == price
        close == Mul(price, Scale + dailyTrend)
        high == Mul(Max(open, close), Scale + dayVolatility \div 2)
        low == Mul(Min(open, close), Scale - dayVolatility \div 2)
        base == 100000 + (r.volume * 900000) \div Scale
        volume == IF r.volumeAnomaly < 300
                      THEN VolumeTimes(base, 2000 + Mul(r.volumeSize, 3000))
                      ELSE [whole |-> base, rest |-> 0]
    IN  [date |-> isoDate(time), open |-> open, high |-> high, low |-> low,
         close |-> close, volume |-> volume.whole, volumeRest |-> volume.rest]

\* lines 65-81: the price after the daily change and the artificial anomaly
DailyChange(price, r) == Mul(Mul(r.change - 500, 50), price)

PriceOfDay(price, r) ==
    LET moved == price + DailyChange(price, r)
    IN  IF r.isAnomaly < 50
            THEN IF r.direction < 500
                     THEN Mul(moved, Scale + Mul(r.size, 200))
                     ELSE Mul(moved, Scale - Mul(r.size, 200))
            ELSE moved

\* lines 65-103: the bar of one iteration of the loop
DayBar(time, before, r) ==
    LET dailyChange == DailyChange(before, r)
        volatilityFactor == Scale + Mul(r.volatility - 500, 100)
        price == PriceOfDay(before, r)
        open == price
        close == price + dailyChange
        high == Mul(Max(open, close), volatilityFactor)
        low == Div(Min(open, close), volatilityFactor)
        base == 100000 + (r.volume * 900000) \div Scale
        volume == IF r.volumeAnomaly < 50
                      THEN VolumeTimes(base, 3000 + Mul(r.volumeSize, 7000))
                      ELSE [whole |-> base, rest |-> 0]
    IN  [date |-> isoDate(time), open |-> open, high |-> high, low |-> low,
         close |-> close, volume |-> volume.whole, volumeRest |-> volume.rest]

\* lines 57-107: the loop from iteration i on
RECURSIVE DayLoop(_, _, _, _, _, _)
DayLoop(i, minDays, currentDate, price, result, draws) ==
    IF i >= minDays THEN result
    ELSE IF (getDay(currentDate) = 0 \/ getDay(currentDate) = 6) /\ minDays > 2
        THEN DayLoop(i + 1, minDays, currentDate + DayHours, price, result, draws)
        ELSE DayLoop(i + 1, minDays, currentDate + DayHours, PriceOfDay(price, draws[i]),
                     Append(result, DayBar(currentDate, price, draws[i])), draws)

\* the values of `days` and of `minDays`
DaysOf(span) == Ceil(span, DayHours)

MinDaysOf(span) == Max(1, DaysOf(span))

InitFetch ==
    /\ stockData = <<>>
    /\ config = defaultConfig
    /\ detected = NoOutputs
    /\ candidates = <<>>
    /\ anomalies = <<>>
    /\ previous = <<>>
    /\ runs = 0
    /\ metrics = [kind |-> "none"]
    /\ correlation = NoCorrelation
    /\ fetch \in {[at |-> "called", from |-> f, span |-> s, result |-> <<>>] :
                     f \in FromTimes, s \in Spans}
    /\ portfolio = NoPortfolio
    /\ page = NoPage
    /\ pc = "idle"

\* fetchStockData(symbol, from, to) when minDays === 1
FetchStockDataOneDay ==
    /\ fetch.at = "called"
    /\ MinDaysOf(fetch.span) = 1
    /\ \E start \in StartDraws, r \in OneDayDraws :
          fetch' = [fetch EXCEPT
                       !.at = "returned",
                       !.result = <<OneDayBar(fetch.from, Num(100) + Mul(start, Num(900)), r)>>]
    /\ pc' = "fetched"
    /\ UNCHANGED <<stockData, config, detected, candidates, anomalies, previous, runs,
                   metrics, correlation, portfolio, page>>

\* fetchStockData(symbol, from, to) when it runs its loop
FetchStockDataDays ==
    /\ fetch.at = "called"
    /\ MinDaysOf(fetch.span) # 1
    /\ \E start \in StartDraws, draws \in [0..(MinDaysOf(fetch.span) - 1) -> DayDraws] :
          fetch' = [fetch EXCEPT
                       !.at = "returned",
                       !.result = DayLoop(0, MinDaysOf(fetch.span), fetch.from,
                                          Num(100) + Mul(start, Num(900)), <<>>, draws)]
    /\ pc' = "fetched"
    /\ UNCHANGED <<stockData, config, detected, candidates, anomalies, previous, runs,
                   metrics, correlation, portfolio, page>>

NextFetch ==
    \/ FetchStockDataOneDay
    \/ FetchStockDataDays

SpecFetch == InitFetch /\ [][NextFetch]_vars

\* C27 (fetchStockData returns a valid series): every series fetchStockData
\* returns has at least one bar, strictly increasing dates, and in every bar
\* high >= max(open, close), low <= min(open, close), positive prices and a
\* volume that is a non-negative integer.
ValidBar(bar) ==
    /\ bar.high >= Max(bar.open, bar.close)
    /\ bar.low <= Min(bar.open, bar.close)
    /\ bar.open > 0 /\ bar.high > 0 /\ bar.low > 0 /\ bar.close > 0
    /\ bar.volume >= 0
    /\ bar.volumeRest = 0

DatesIncrease(series) ==
    \A i \in 1..(Len(series) - 1) : series[i].date < series[i + 1].date

C27_ValidSeries ==
    fetch.at = "returned" =>
        /\ Len(fetch.result) >= 1
        /\ DatesIncrease(fetch.result)
        /\ \A i \in 1..Len(fetch.result) : ValidBar(fetch.result[i])


(***************************************************************************)
(* The Portfolio page                                                      *)
(* A stock of portfolioStocks is kept as its symbol.  refreshPortfolioData *)
(* is suspended at `await Promise.all(...)`: a refresh in flight is the    *)
(* watchlist its closure captured, and it resumes (line 75) when the       *)
(* promises of fetchStockData and fetchStockMetrics have settled; events   *)
(* of the page may be handled in between.  An event handler is modelled    *)
(* together with the render and the useEffect that follow it.  The         *)
(* synthetic fetchStockData of stockData.ts settles without a timer; the   *)
(* interleavings below are those of a fetch that takes time.               *)
(***************************************************************************)
initialWatchlist == <<"AAPL", "GOOGL", "MSFT", "TSLA">>

\* the symbols the user enters or removes
Symbols == {"AAPL", "GOOGL", "MSFT", "TSLA", "NVDA"}

MaxEvents == 4

MaxInFlight == 2

Includes(list, x) == \E i \in 1..Len(list) : list[i] = x

\* list.filter(s => s !== symbol)
Without(list, symbol) ==
    LET Keep(x) == x # symbol
    IN  SelectSeq(list, Keep)

RemoveAt(list, k) == SubSeq(list, 1, k - 1) \o SubSeq(list, k + 1, Len(list))

\* lines 95-99: the effect that runs when `watchlist` has changed
EffectOnWatchlist(watchlist, refreshes) ==
    IF Len(watchlist) > 0 THEN Append(refreshes, watchlist) ELSE refreshes

InitPortfolio ==
    /\ stockData = <<>>
    /\ config = defaultConfig
    /\ detected = NoOutputs
    /\ candidates = <<>>
    /\ anomalies = <<>>
    /\ previous = <<>>
    /\ runs = 0
    /\ metrics = [kind |-> "none"]
    /\ correlation = NoCorrelation
    /\ fetch = NoFetch
    /\ portfolio = [at |-> "rendered", watchlist |-> initialWatchlist,
                    portfolioStocks |-> <<>>, loading |-> FALSE,
                    refreshes |-> <<>>, events |-> 0]
    /\ page = NoPage
    /\ pc = "idle"

\* the effect of the first render: refreshPortfolioData up to its await
MountPortfolio ==
    /\ portfolio.at = "rendered"
    /\ portfolio' = [portfolio EXCEPT
                        !.at = "mounted",
                        !.loading = Len(portfolio.watchlist) > 0,
                        !.refreshes = EffectOnWatchlist(portfolio.watchlist, @)]
    /\ pc' = "portfolio"
    /\ UNCHANGED <<stockData, config, detected, candidates, anomalies, previous, runs,
                   metrics, correlation, fetch, page>>

\* addToWatchlist(symbol), then the effect
AddToWatchlist ==
    /\ portfolio.at = "mounted"
    /\ portfolio.events < MaxEvents
    /\ Len(portfolio.refreshes) < MaxInFlight
    /\ \E symbol \in Symbols :
          /\ ~Includes(portfolio.watchlist, symbol)
          /\ portfolio' = [portfolio EXCEPT
                              !.watchlist = Append(@, symbol),
                              !.loading = TRUE,
                              !.refreshes = Append(@, Append(portfolio.watchlist, symbol)),
                              !.events = @ + 1]
    /\ pc' = "portfolio"
    /\ UNCHANGED <<stockData, config, detected, candidates, anomalies, previous, runs,
                   metrics, correlation, fetch, page>>

\* removeFromWatchlist(symbol), from a card of the grid or from the
\* watchlist manager, then the effect
RemoveFromWatchlist ==
    /\ portfolio.at = "mounted"
    /\ portfolio.events < MaxEvents
    /\ Len(portfolio.refreshes) < MaxInFlight
    /\ \E symbol \in Symbols :
          /\ Includes(portfolio.watchlist, symbol) \/ Includes(portfolio.portfolioStocks, symbol)
          /\ portfolio' = [portfolio EXCEPT
                              !.watchlist = Without(@, symbol),
                              !.portfolioStocks = Without(@, symbol),
                              !.loading = @ \/ Len(Without(portfolio.watchlist, symbol)) > 0,
                              !.refreshes = EffectOnWatchlist(
                                                Without(portfolio.watchlist, symbol), @),
                              !.events = @ + 1]
    /\ pc' = "portfolio"
    /\ UNCHANGED <<stockData, config, detected, candidates, anomalies, previous, runs,
                   metrics, correlation, fetch, page>>

\* the Refresh button (disabled while loading): refreshPortfolioData up to
\* its await
RefreshPortfolioData ==
    /\ portfolio.at = "mounted"
    /\ portfolio.events < MaxEvents
    /\ Len(portfolio.refreshes) < MaxInFlight
    /\ ~portfolio.loading
    /\ portfolio' = [portfolio EXCEPT
                        !.loading = TRUE,
                        !.refreshes = Append(@, portfolio.watchlist),
                        !.events = @ + 1]
    /\ pc' = "portfolio"
    /\ UNCHANGED <<stockData, config, detected, candidates, anomalies, previous, runs,
                   metrics, correlation, fetch, page>>

\* lines 74-91: a refresh in flight resumes after its await
RefreshCompletes ==
    /\ portfolio.at = "mounted"
    /\ \E k \in 1..Len(portfolio.refreshes) :
          portfolio' = [portfolio EXCEPT
                           !.portfolioStocks = portfolio.refreshes[k],
                           !.loading = FALSE,
                           !.refreshes = RemoveAt(@, k)]
    /\ pc' = "portfolio"
    /\ UNCHANGED <<stockData, config, detected, candidates, anomalies, previous, runs,
                   metrics, correlation, fetch, page>>

NextPortfolio ==
    \/ MountPortfolio
    \/ AddToWatchlist
    \/ RemoveFromWatchlist
    \/ RefreshPortfolioData
    \/ RefreshCompletes

SpecPortfolio == InitPortfolio /\ [][NextPortfolio]_vars

StockChoices == {"AAPL", "TSLA"}

\* date ranges: two complete ones, and one whose `to` is not chosen yet
DateRanges == {"1Y", "1M", "from only"}

IsComplete(range) == range # "from only"

\* what the page displays before any load has set it
NoLoad == [id |-> -1, stock |-> "none", range |-> "none"]

\* lines 286-292: loadData up to its first await
StartLoad(p, stock, range, id) ==
    IF IsComplete(range)
        THEN [p EXCEPT !.loading = TRUE,
                       !.loads = Append(@, [id |-> id, stock |-> stock,
                                            range |-> range, at |-> "data"])]
        ELSE p

InitIndex ==
    /\ stockData = <<>>
    /\ config = defaultConfig
    /\ detected = NoOutputs
    /\ candidates = <<>>
    /\ anomalies = <<>>
    /\ previous = <<>>
    /\ runs = 0
    /\ metrics = [kind |-> "none"]
    /\ correlation = NoCorrelation
    /\ fetch = NoFetch
    /\ portfolio = NoPortfolio
    /\ page = [at |-> "rendered", selectedStock |-> "AAPL", dateRange |-> "1Y",
               stockData |-> NoLoad, metrics |-> NoLoad, anomalies |-> NoLoad,
               loading |-> TRUE, loads |-> <<>>, events |-> 0]
    /\ pc = "idle"

\* the effect of the first render
MountIndex ==
    /\ page.at = "rendered"
    /\ page' = StartLoad([page EXCEPT !.at = "mounted"],
                         page.selectedStock, page.dateRange, 0)
    /\ pc' = "index"
    /\ UNCHANGED <<stockData, config, detected, candidates, anomalies, previous, runs,
                   metrics, correlation, fetch, portfolio>>

\* setSelectedStock(stock) with another stock, then the effect
SelectStock ==
    /\ page.at = "mounted"
    /\ page.events < MaxEvents
    /\ Len(page.loads) < MaxInFlight
    /\ \E stock \in StockChoices \ {page.selectedStock} :
          page' = StartLoad([page EXCEPT !.selectedStock = stock, !.events = @ + 1],
                            stock, page.dateRange, page.events + 1)
    /\ pc' = "index"
    /\ UNCHANGED <<stockData, config, detected, candidates, anomalies, previous, runs,
                   metrics, correlation, fetch, portfolio>>

\* setDateRange(range) with a new object, then the effect
SelectDateRange ==
    /\ page.at = "mounted"
    /\ page.events < MaxEvents
    /\ Len(page.loads) < MaxInFlight
    /\ \E range \in DateRanges :
          page' = StartLoad([page EXCEPT !.dateRange = range, !.events = @ + 1],
                            page.selectedStock, range, page.events + 1)
    /\ pc' = "index"
    /\ UNCHANGED <<stockData, config, detected, candidates, anomalies, previous, runs,
                   metrics, correlation, fetch, portfolio>>

\* lines 292-296: a load resumes after `await fetchStockData(...)`
LoadDataFetched ==
    /\ page.at = "mounted"
    /\ \E k \in 1..Len(page.loads) :
          /\ page.loads[k].at = "data"
          /\ page' = [page EXCEPT
                         !.stockData = [id |-> page.loads[k].id,
                                        stock |-> page.loads[k].stock,
                                        range |-> page.loads[k].range],
                         !.loads[k].at = "metrics"]
    /\ pc' = "index"
    /\ UNCHANGED <<stockData, config, detected, candidates, anomalies, previous, runs,
                   metrics, correlation, fetch, portfolio>>

\* lines 296-322: a load resumes after `await fetchStockMetrics(...)`
LoadDataCompletes ==
    /\ page.at = "mounted"
    /\ \E k \in 1..Len(page.loads) :
          /\ page.loads[k].at = "metrics"
          /\ LET from == [id |-> page.loads[k].id, stock |-> page.loads[k].stock,
                          range |-> page.loads[k].range]
             IN  page' = [page EXCEPT
                             !.metrics = from,
                             !.anomalies = from,
                             !.loading = FALSE,
                             !.loads = RemoveAt(@, k)]
    /\ pc' = "index"
    /\ UNCHANGED <<stockData, config, detected, candidates, anomalies, previous, runs,
                   metrics, correlation, fetch, portfolio>>

NextIndex ==
    \/ MountIndex
    \/ SelectStock
    \/ SelectDateRange
    \/ LoadDataFetched
    \/ LoadDataCompletes

SpecIndex == InitIndex /\ [][NextIndex]_vars

\* C29 (the Index page shows the current selection): once every loadData
\* run has completed, the displayed stockData, metrics and anomalies all
\* come from one load, the one of the currently selected stock and date
\* range; and the loading flag is true whenever a load is in flight.
ShowsCurrentSelection ==
    /\ page.stockData # NoLoad
    /\ page.metrics = page.stockData
    /\ page.anomalies = page.stockData
    /\ page.stockData.stock = page.selectedStock
    /\ page.stockData.range = page.dateRange

MaxStocks == 2

MaxMedium == 3

\* a list of anomalies with the given numbers of severities
Repeated(n, x) == [i \in 1..n |-> x]

AnomaliesOf(high, medium, low) ==
    Repeated(high, [severity |-> "high"])
        \o Repeated(medium, [severity |-> "medium"])
        \o Repeated(low, [severity |-> "low"])

AnomalyLists ==
    {AnomaliesOf(h, m, l) : h \in 0..1, m \in 0..MaxMedium, l \in 0..1}

PortfolioStockLists ==
    UNION {{[i \in 1..n |-> [symbol |-> initialWatchlist[i], anomalies |-> f[i]]] :
               f \in [1..n -> AnomalyLists]} :
           n \in 0..MaxStocks}

\* anomalies.filter(a => a.severity === severity).length
CountSeverity(list, severity) ==
    Cardinality({i \in 1..Len(list) : list[i].severity = severity})

\* AnomalyList.tsx lines 211-228
calculatePortfolioRisk(portfolioStocks) ==
    LET totalStocks == Len(portfolioStocks)
        IsHigh(s) == CountSeverity(s.anomalies, "high") > 0
        IsMedium(s) == CountSeverity(s.anomalies, "medium") > 2
        highRiskStocks ==
            Cardinality({i \in 1..totalStocks : IsHigh(portfolioStocks[i])})
        mediumRiskStocks ==
            Cardinality({i \in 1..totalStocks : IsMedium(portfolioStocks[i])})
    IN  [riskScore |-> IF totalStocks > 0
                           THEN Mul(Div(Num(highRiskStocks) * 3 + Mul(Num(mediumRiskStocks), 1500),
                                        Num(totalStocks)),
                                    Num(100))
                           ELSE 0,
         highRiskStocks |-> highRiskStocks,
         mediumRiskStocks |-> mediumRiskStocks,
         lowRiskStocks |-> totalStocks - highRiskStocks - mediumRiskStocks]

\* MetricsPanel.tsx lines 128-133: riskLevel of a stock card
riskLevel(stock) ==
    LET highAnomalies == CountSeverity(stock.anomalies, "high")
        mediumAnomalies == CountSeverity(stock.anomalies, "medium")
    IN  IF highAnomalies > 0 THEN "high"
        ELSE IF mediumAnomalies > 2 THEN "medium" ELSE "low"

InitRisk ==
    /\ stockData = <<>>
    /\ config = defaultConfig
    /\ detected = NoOutputs
    /\ candidates = <<>>
    /\ anomalies = <<>>
    /\ previous = <<>>
    /\ runs = 0
    /\ metrics = [kind |-> "none"]
    /\ correlation = NoCorrelation
    /\ fetch = NoFetch
    /\ portfolio \in {[at |-> "analysis", portfolioStocks |-> stocks,
                       riskAnalysis |-> <<>>, cards |-> <<>>] :
                         stocks \in PortfolioStockLists}
    /\ page = NoPage
    /\ pc = "idle"

\* the portfolio analysis renders: riskAnalysis = calculatePortfolioRisk()
CalculatePortfolioRisk ==
    /\ portfolio.at = "analysis"
    /\ portfolio.riskAnalysis = <<>>
    /\ portfolio' = [portfolio EXCEPT
                        !.riskAnalysis = <<calculatePortfolioRisk(portfolio.portfolioStocks)>>]
    /\ pc' = "risk"
    /\ UNCHANGED <<stockData, config, detected, candidates, anomalies, previous, runs,
                   metrics, correlation, fetch, page>>

\* the grid renders one StockCard per stock
RenderStockCards ==
    /\ portfolio.at = "analysis"
    /\ portfolio.cards = <<>>
    /\ portfolio' = [portfolio EXCEPT
                        !.cards = <<[i \in 1..Len(portfolio.portfolioStocks) |->
                                        riskLevel(portfolio.portfolioStocks[i])]>>]
    /\ pc' = "risk"
    /\ UNCHANGED <<stockData, config, detected, candidates, anomalies, previous, runs,
                   metrics, correlation, fetch, page>>

NextRisk ==
    \/ CalculatePortfolioRisk
    \/ RenderStockCards

SpecRisk == InitRisk /\ [][NextRisk]_vars

\* C30 (every stock in exactly one risk bucket): highRiskStocks,
\* mediumRiskStocks and lowRiskStocks are non-negative, sum to the number of
\* portfolio stocks, and equal the numbers of stock cards whose badge is
\* HIGH, MEDIUM and LOW.
Badges(cards, level) == Cardinality({i \in 1..Len(cards) : cards[i] = level})

C30_RiskBuckets ==
    (portfolio.at = "analysis" /\ portfolio.riskAnalysis # <<>> /\ portfolio.cards # <<>>) =>
        LET risk == portfolio.riskAnalysis[1]
            cards == portfolio.cards[1]
        IN  /\ risk.highRiskStocks >= 0
            /\ risk.mediumRiskStocks >= 0
            /\ risk.lowRiskStocks >= 0
            /\ risk.highRiskStocks + risk.mediumRiskStocks + risk.lowRiskStocks
                   = Len(portfolio.portfolioStocks)
            /\ risk.highRiskStocks = Badges(cards, "high")
            /\ risk.mediumRiskStocks = Badges(cards, "medium")
            /\ risk.lowRiskStocks = Badges(cards, "low")

====
